---- MODULE Spec2Model ----
(***************************************************************************)
(* Ingestion (process-pdf), retrieval (match_documents / match_images) and *)
(* the chat handler of prosmart-chatbot-demo, as a state machine over the  *)
(* persisted store: documents, document_chunks, document_images and the    *)
(* user-documents storage bucket.                                          *)
(***************************************************************************)
EXTENDS Integers, Sequences, FiniteSets, TLC

\* ------------------------------------------------------------------------
\* Bounds of the model
\* ------------------------------------------------------------------------
\* number of files uploaded, all users together
MaxUploads == 2
\* number of chat requests explored
MaxChats == 1

Users == {"u1", "u2"}
DocIds == {"d1", "d2"}
\* the process-pdf invocations explored
Runs == {"r1", "r2"}
\* a request field that is missing (undefined / empty string)
Missing == "missing"

\* documents.user_id is unique (upsert onConflict 'user_id'): one row per user
DocOf(u) == IF u = "u1" THEN "d1" ELSE "d2"
OwnerOf(d) == IF d = "d1" THEN "u1" ELSE "u2"

Min(a, b) == IF a < b THEN a ELSE b
Max(a, b) == IF a > b THEN a ELSE b

\* ------------------------------------------------------------------------
\* Embeddings and cosine similarity (pgvector `<=>` is cosine distance)
\* ------------------------------------------------------------------------
\* unit directions, as integer pairs of Euclidean norm 5
Vecs == {<<5, 0>>, <<4, 3>>, <<3, 4>>, <<0, 5>>, <<-5, 0>>}

Dot(a, b) == a[1] * b[1] + a[2] * b[2]

RECURSIVE ISqrtFrom(_, _)
ISqrtFrom(n, r) == IF (r + 1) * (r + 1) > n THEN r ELSE ISqrtFrom(n, r + 1)
Norm(a) == ISqrtFrom(Dot(a, a), 0)

\* 1 - (a <=> b), in hundredths
Similarity(a, b) == (Dot(a, b) * 100) \div (Norm(a) * Norm(b))

\* ------------------------------------------------------------------------
\* Text.  A string is a sequence of runs <<kind, n>>: n >= 1 characters of
\* kind "t" (non-whitespace), "s" (blank other than newline) or "n"
\* (newline); adjacent runs have different kinds.
\* ------------------------------------------------------------------------
IsWs(run) == run[1] # "t"

RECURSIVE StrLen(_)
StrLen(s) == IF s = << >> THEN 0 ELSE Head(s)[2] + StrLen(Tail(s))

\* a \o b with the runs at the seam merged
Concat(a, b) ==
  IF a = << >> THEN b
  ELSE IF b = << >> THEN a
  ELSE IF a[Len(a)][1] = b[1][1]
       THEN SubSeq(a, 1, Len(a) - 1) \o << <<b[1][1], a[Len(a)][2] + b[1][2]>> >> \o Tail(b)
       ELSE a \o b

\* the first n characters
RECURSIVE Take(_, _)
Take(s, n) ==
  IF n <= 0 \/ s = << >> THEN << >>
  ELSE IF Head(s)[2] <= n THEN <<Head(s)>> \o Take(Tail(s), n - Head(s)[2])
       ELSE << <<Head(s)[1], n>> >>

\* all but the first n characters
RECURSIVE Drop(_, _)
Drop(s, n) ==
  IF n <= 0 \/ s = << >> THEN s
  ELSE IF Head(s)[2] <= n THEN Drop(Tail(s), n - Head(s)[2])
       ELSE << <<Head(s)[1], Head(s)[2] - n>> >> \o Tail(s)

\* String.prototype.slice(from, to), 0 <= from
Slice(s, from, to) == Take(Drop(s, from), to - from)

\* String.prototype.slice(-n)
SliceLast(s, n) == Drop(s, Max(0, StrLen(s) - n))

RECURSIVE TrimStart(_)
TrimStart(s) == IF s # << >> /\ IsWs(Head(s)) THEN TrimStart(Tail(s)) ELSE s

RECURSIVE TrimEnd(_)
TrimEnd(s) ==
  IF s # << >> /\ IsWs(s[Len(s)]) THEN TrimEnd(SubSeq(s, 1, Len(s) - 1)) ELSE s

\* String.prototype.trim()
Trim(s) == TrimEnd(TrimStart(s))

\* String.prototype.split(/\n\n+/): the pieces between runs of two or more
\* newlines (a leading or trailing separator yields an empty piece)
RECURSIVE SplitParagraphsFrom(_, _)
SplitParagraphsFrom(s, cur) ==
  IF s = << >> THEN <<cur>>
  ELSE IF Head(s)[1] = "n" /\ Head(s)[2] >= 2
       THEN <<cur>> \o SplitParagraphsFrom(Tail(s), << >>)
       ELSE SplitParagraphsFrom(Tail(s), cur \o <<Head(s)>>)
SplitParagraphs(s) == SplitParagraphsFrom(s, << >>)

\* the number of non-whitespace characters
RECURSIVE InkLen(_)
InkLen(s) ==
  IF s = << >> THEN 0
  ELSE (IF IsWs(Head(s)) THEN 0 ELSE Head(s)[2]) + InkLen(Tail(s))

\* literal text of n non-whitespace characters, "\n\n", "\n"
T(n) == << <<"t", n>> >>
ParaSep == << <<"n", 2>> >>
NewLine == << <<"n", 1>> >>

\* optional values: null is << >>, a value x is <<x>>
Null == << >>
Some(x) == <<x>>

\* ------------------------------------------------------------------------
\* Chunking (process-pdf/index.ts, createSemanticChunks)
\* ------------------------------------------------------------------------
targetChunkSize == 800
overlap == 100
\* paragraphs and windows of at most this many characters are dropped
minFragment == 50

\* d.description of every diagram, joined with "; "
RECURSIVE JoinDescriptions(_)
JoinDescriptions(diagrams) ==
  IF Len(diagrams) <= 1 THEN diagrams
  ELSE <<Head(diagrams), "; ">> \o JoinDescriptions(Tail(diagrams))

\* "[TABLA: " title "]" "\n" content, title defaulting to "Sin título"
TableContent(table) ==
  LET title == IF table.title # << >> THEN table.title
               ELSE << <<"t", 3>>, <<"s", 1>>, <<"t", 6>> >>
  IN  Concat(Concat(Concat(Concat(<< <<"t", 7>>, <<"s", 1>> >>, title), T(1)),
                    NewLine), table.content)

MkChunk(content, analysis, chunkIndex) ==
  [content |-> content,
   page_number |-> analysis.page_number,
   chunk_index |-> chunkIndex,
   has_diagram |-> Len(analysis.diagrams) > 0,
   diagram_description |->
     IF Len(analysis.diagrams) > 0 THEN Some(JoinDescriptions(analysis.diagrams))
     ELSE Null]

\* the loop over paragraphs and the push of the remaining content
RECURSIVE PackParagraphs(_, _, _, _, _)
PackParagraphs(paragraphs, currentChunk, chunkIndex, analysis, chunks) ==
  IF paragraphs = << >>
  THEN IF Trim(currentChunk) # << >>
       THEN Append(chunks, MkChunk(Trim(currentChunk), analysis, chunkIndex))
       ELSE chunks
  ELSE LET para == Head(paragraphs) IN
       IF StrLen(currentChunk) + StrLen(para) > targetChunkSize /\ StrLen(currentChunk) > 0
       THEN PackParagraphs(Tail(paragraphs),
                           Concat(Concat(SliceLast(currentChunk, overlap), ParaSep), para),
                           chunkIndex + 1, analysis,
                           Append(chunks, MkChunk(Trim(currentChunk), analysis, chunkIndex)))
       ELSE PackParagraphs(Tail(paragraphs),
                           Concat(IF currentChunk # << >> THEN Concat(currentChunk, ParaSep)
                                  ELSE currentChunk, para),
                           chunkIndex, analysis, chunks)

\* the loop for (i = 0; i < pageText.length; i += targetChunkSize - overlap)
RECURSIVE SlideWindows(_, _, _, _)
SlideWindows(pageText, i, analysis, chunks) ==
  IF i >= StrLen(pageText) THEN chunks
  ELSE LET chunkText == Slice(pageText, i, i + targetChunkSize) IN
       SlideWindows(pageText, i + (targetChunkSize - overlap), analysis,
                    IF StrLen(Trim(chunkText)) > minFragment
                    THEN Append(chunks, MkChunk(Trim(chunkText), analysis,
                                                i \div (targetChunkSize - overlap)))
                    ELSE chunks)

\* the loop over analysis.tables
RECURSIVE TableChunks(_, _, _)
TableChunks(tables, analysis, chunks) ==
  IF tables = << >> THEN chunks
  ELSE TableChunks(Tail(tables), analysis,
                   IF Head(tables).content # << >>
                   THEN Append(chunks, [content |-> TableContent(Head(tables)),
                                        page_number |-> analysis.page_number,
                                        chunk_index |-> Len(chunks),
                                        has_diagram |-> FALSE,
                                        diagram_description |-> Null])
                   ELSE chunks)

\* the body of the loop over analyses, for one analysis
ChunkPage(analysis, chunks) ==
  IF Trim(analysis.text_content) = << >> THEN chunks
  ELSE LET pageText == analysis.text_content
           split == SplitParagraphs(pageText)
           paragraphs == SelectSeq(split, LAMBDA p : StrLen(Trim(p)) > minFragment)
           prose == IF Len(paragraphs) > 1
                    THEN PackParagraphs(paragraphs, << >>, 0, analysis, chunks)
                    ELSE SlideWindows(pageText, 0, analysis, chunks)
       IN  TableChunks(analysis.tables, analysis, prose)

RECURSIVE ChunkPages(_, _)
ChunkPages(analyses, chunks) ==
  IF analyses = << >> THEN chunks
  ELSE ChunkPages(Tail(analyses), ChunkPage(Head(analyses), chunks))

createSemanticChunks(analyses) == ChunkPages(analyses, << >>)

\* ------------------------------------------------------------------------
\* Inputs: what the uploaded files contain
\* ------------------------------------------------------------------------
\* The pages of generation gen of a user's document.pdf, as a faithful
\* analysis reports them.  Odd generations: a manual of two pages, a diagram
\* on page 1, two paragraphs and a table on page 2.  Even generations: one
\* page holding a single block of 900 characters.
FilePages(gen) ==
  IF gen % 2 = 1
  THEN << [page_number |-> 1, text_content |-> T(120),
           diagrams |-> <<"esquema de conexiones">>, tables |-> << >>],
          [page_number |-> 2,
           text_content |-> Concat(Concat(T(60), ParaSep), T(70)),
           diagrams |-> << >>,
           tables |-> << [title |-> T(5), content |-> T(30)] >>] >>
  ELSE << [page_number |-> 1, text_content |-> T(900),
           diagrams |-> << >>, tables |-> << >>] >>

\* embedded_images of a request: none, or a figure and an icon on page 1
EmbeddedImageSets ==
  { << >>,
    << [page_number |-> 1, width |-> 200, height |-> 100],
       [page_number |-> 1, width |-> 30, height |-> 30] >> }

\* text-embedding-3-small, as a function of the text
VecOfLen(n) ==
  CASE n % 5 = 0 -> <<5, 0>>
    [] n % 5 = 1 -> <<4, 3>>
    [] n % 5 = 2 -> <<3, 4>>
    [] n % 5 = 3 -> <<0, 5>>
    [] OTHER -> <<-5, 0>>
Embedding(text) == VecOfLen(StrLen(text) + Len(text))

\* Captions are sequences of lower-case words.
\* the caption the vision model gives to a figure
FigureCaption == <<"diagrama", "conexiones", "variador">>
\* "Imagen del documento"
DefaultCaption == <<"imagen", "del", "documento">>

\* the characters of a caption: its words, each taken as 8 characters, joined by blanks
RECURSIVE CaptionText(_)
CaptionText(caption) ==
  IF caption = << >> THEN << >>
  ELSE IF Len(caption) = 1 THEN T(8)
       ELSE Concat(Concat(T(8), << <<"s", 1>> >>), CaptionText(Tail(caption)))

HasWord(caption, words) == \E i \in 1..Len(caption) : caption[i] \in words

detectImageType(caption) ==
  IF HasWord(caption, {"diagrama", "esquema"}) THEN "diagram"
  ELSE IF HasWord(caption, {"foto", "fotografia"}) THEN "photo"
  ELSE IF HasWord(caption, {"grafico", "chart"}) THEN "chart"
  ELSE IF HasWord(caption, {"tabla"}) THEN "table"
  ELSE IF HasWord(caption, {"icono", "simbolo"}) THEN "icon"
  ELSE "diagram"

\* ------------------------------------------------------------------------
\* Retrieval (migrations/002_enhanced_rag_with_images.sql)
\* ------------------------------------------------------------------------
\* ORDER BY similarity DESC: every order the rows of S can be listed in,
\* rows of equal similarity in any order
RECURSIVE OrderBySimilarityDesc(_)
OrderBySimilarityDesc(S) ==
  IF S = {} THEN { << >> }
  ELSE LET first == {r \in S : \A o \in S : r.similarity >= o.similarity}
       IN  UNION { { <<r>> \o rest : rest \in OrderBySimilarityDesc(S \ {r}) } : r \in first }

\* LIMIT n
Limit(s, n) == SubSeq(s, 1, Min(n, Len(s)))

\* the chunk filter with >= in place of >: what the strictness in C10 excludes
ChunkMatchesAtLeast(dc, query_embedding, match_threshold, p_user_id) ==
  /\ dc.user_id = p_user_id
  /\ dc.embedding # Null
  /\ Similarity(dc.embedding[1], query_embedding) >= match_threshold

\* WHERE dc.user_id = p_user_id AND 1 - (dc.embedding <=> query_embedding) > match_threshold
\* (a NULL embedding gives a NULL similarity, and the comparison is not true)
ChunkMatches(dc, query_embedding, match_threshold, p_user_id) ==
  /\ dc.user_id = p_user_id
  /\ dc.embedding # Null
  /\ Similarity(dc.embedding[1], query_embedding) > match_threshold

\* the possible results of SELECT ... FROM document_chunks dc
match_documents(table, query_embedding, match_threshold, match_count, p_user_id) ==
  LET selected ==
        { [id |-> dc.id, content |-> dc.content, page_number |-> dc.page_number,
           has_diagram |-> dc.has_diagram,
           diagram_description |-> dc.diagram_description,
           similarity |-> Similarity(dc.embedding[1], query_embedding)] :
          dc \in {x \in table : ChunkMatches(x, query_embedding, match_threshold, p_user_id)} }
  IN  { Limit(s, match_count) : s \in OrderBySimilarityDesc(selected) }

\* COALESCE(a, b)
Coalesce(a, b) == IF a # Null THEN a ELSE b

\* the image filter without its user_id test: what the isolation in C9 excludes
ImageMatchesAnyUser(di, query_embedding, match_threshold, p_user_id) ==
  /\ di.embedding # Null
  /\ Similarity(di.embedding[1], query_embedding) > match_threshold

\* WHERE di.user_id = p_user_id AND di.embedding IS NOT NULL AND ... > match_threshold
ImageMatches(di, query_embedding, match_threshold, p_user_id) ==
  /\ di.user_id = p_user_id
  /\ di.embedding # Null
  /\ Similarity(di.embedding[1], query_embedding) > match_threshold

\* the possible results of SELECT ... FROM document_images di
match_images(table, query_embedding, match_threshold, match_count, p_user_id) ==
  LET selected ==
        { [id |-> di.id, image_url |-> di.image_url,
           ai_caption |-> Coalesce(di.ai_caption, Coalesce(di.context, Some(DefaultCaption))),
           image_type |-> Coalesce(di.image_type, Some("diagram")),
           page_number |-> di.page_number, context |-> di.context,
           similarity |-> Similarity(di.embedding[1], query_embedding)] :
          di \in {x \in table : ImageMatches(x, query_embedding, match_threshold, p_user_id)} }
  IN  { Limit(s, match_count) : s \in OrderBySimilarityDesc(selected) }

\* ------------------------------------------------------------------------
\* The text of a completion (chat/index.ts).  A response is a sequence of
\* tokens, each a sequence of strings: <<"nl">> a newline, <<"sp">> a blank,
\* <<"num", d>> a run of digits, <<"dot">> one of "." and ")", <<"paso">> the
\* word Paso in any case, <<"w", x>> any other word, and <<"img", w1, ...>>
\* a reference [IMAGEN: w1 ...].
\* ------------------------------------------------------------------------
IsSpace(tok) == tok[1] \in {"nl", "sp"}

\* the number of whitespace tokens from position k on
RECURSIVE SpaceRun(_, _)
SpaceRun(s, k) ==
  IF k <= Len(s) /\ IsSpace(s[k]) THEN 1 + SpaceRun(s, k + 1) ELSE 0

\* String.prototype.trim() of a response
RECURSIVE TrimText(_)
TrimText(s) ==
  IF s = << >> THEN s
  ELSE IF IsSpace(Head(s)) THEN TrimText(Tail(s))
  ELSE IF IsSpace(s[Len(s)]) THEN TrimText(SubSeq(s, 1, Len(s) - 1))
  ELSE s

\* \d+[\.\)]\s+ matched at position j: the position after the match, 0 if none
NumberedEnd(s, j) ==
  IF /\ j + 2 <= Len(s)
     /\ s[j][1] = "num"
     /\ s[j + 1][1] = "dot"
     /\ SpaceRun(s, j + 2) >= 1
  THEN j + 2 + SpaceRun(s, j + 2)
  ELSE 0

\* (?:^|\n)\s*\d+[\.\)]\s+ with the m flag, matched at position k: the
\* position after the match, 0 if none
NumberedMatchEnd(s, k) ==
  IF k = 1 \/ s[k - 1][1] = "nl" \/ s[k][1] = "nl"
  THEN NumberedEnd(s, k + SpaceRun(s, k))
  ELSE 0

\* response.match(/(?:^|\n)\s*\d+[\.\)]\s+/gm): the number of matches from k on
RECURSIVE CountNumbered(_, _)
CountNumbered(s, k) ==
  IF k > Len(s) THEN 0
  ELSE IF NumberedMatchEnd(s, k) > 0 THEN 1 + CountNumbered(s, NumberedMatchEnd(s, k))
  ELSE CountNumbered(s, k + 1)

\* Paso\s*\d+ matched at position k
PasoAt(s, k) ==
  /\ s[k][1] = "paso"
  /\ k + SpaceRun(s, k + 1) + 1 <= Len(s)
  /\ s[k + SpaceRun(s, k + 1) + 1][1] = "num"

\* response.match(/Paso\s*\d+/gi): the number of matches
CountPaso(s) == Cardinality({k \in 1..Len(s) : PasoAt(s, k)})

\* String.prototype.split at the positions of cuts: the pieces of s, a piece
\* starting at each cut
RECURSIVE SplitBefore(_, _, _, _)
SplitBefore(s, cuts, k, cur) ==
  IF k > Len(s) THEN <<cur>>
  ELSE IF k \in cuts /\ k > 1
       THEN <<cur>> \o SplitBefore(s, cuts, k + 1, <<s[k]>>)
       ELSE SplitBefore(s, cuts, k + 1, Append(cur, s[k]))

\* parts.map(p => p.trim()).filter(p => p.length > 0)
TrimmedNonEmpty(parts) ==
  SelectSeq([i \in 1..Len(parts) |-> TrimText(parts[i])], LAMBDA p : p # << >>)

\* response.split(/\n\n+/): the pieces between runs of two or more newlines
RECURSIVE SplitBlankLines(_, _, _)
SplitBlankLines(s, k, cur) ==
  IF k > Len(s) THEN <<cur>>
  ELSE IF s[k][1] = "nl" /\ k < Len(s) /\ s[k + 1][1] = "nl"
       THEN LET RECURSIVE NewlineRun(_)
                NewlineRun(j) == IF j <= Len(s) /\ s[j][1] = "nl"
                                 THEN 1 + NewlineRun(j + 1) ELSE 0
            IN  <<cur>> \o SplitBlankLines(s, k + NewlineRun(k), << >>)
       ELSE SplitBlankLines(s, k + 1, Append(cur, s[k]))

parseSteps(rawResponse) ==
  IF rawResponse = << >> THEN << >>
  ELSE IF CountNumbered(rawResponse, 1) > 1
  THEN TrimmedNonEmpty(
         SplitBefore(rawResponse,
                     {k \in 1..Len(rawResponse) :
                        /\ rawResponse[k][1] = "nl"
                        /\ NumberedEnd(rawResponse, k + SpaceRun(rawResponse, k)) > 0},
                     1, << >>))
  ELSE IF CountPaso(rawResponse) > 1
  THEN TrimmedNonEmpty(
         SplitBefore(rawResponse, {k \in 1..Len(rawResponse) : PasoAt(rawResponse, k)}, 1, << >>))
  ELSE LET paragraphs == SelectSeq(SplitBlankLines(rawResponse, 1, << >>),
                                   LAMBDA p : TrimText(p) # << >>)
       IN  IF Len(paragraphs) > 1
           THEN [i \in 1..Len(paragraphs) |-> TrimText(paragraphs[i])]
           ELSE << TrimText(rawResponse) >>

\* the characters of the words that captions, image types and references
\* are made of
Chars(word) ==
  CASE word = "" -> << >>
    [] word = "diagrama" -> <<"d", "i", "a", "g", "r", "a", "m", "a">>
    [] word = "conexiones" -> <<"c", "o", "n", "e", "x", "i", "o", "n", "e", "s">>
    [] word = "variador" -> <<"v", "a", "r", "i", "a", "d", "o", "r">>
    [] word = "imagen" -> <<"i", "m", "a", "g", "e", "n">>
    [] word = "del" -> <<"d", "e", "l">>
    [] word = "documento" -> <<"d", "o", "c", "u", "m", "e", "n", "t", "o">>
    [] word = "motor" -> <<"m", "o", "t", "o", "r">>
    [] word = "trifasico" -> <<"t", "r", "i", "f", "a", "s", "i", "c", "o">>
    [] word = "esquema" -> <<"e", "s", "q", "u", "e", "m", "a">>
    [] word = "general" -> <<"g", "e", "n", "e", "r", "a", "l">>
    [] word = "foto" -> <<"f", "o", "t", "o">>
    [] word = "diagram" -> <<"d", "i", "a", "g", "r", "a", "m">>
    [] word = "photo" -> <<"p", "h", "o", "t", "o">>
    [] word = "chart" -> <<"c", "h", "a", "r", "t">>
    [] word = "table" -> <<"t", "a", "b", "l", "e">>
    [] word = "icon" -> <<"i", "c", "o", "n">>

\* String.prototype.includes, on words
Includes(a, b) ==
  \E from \in 1..(Len(Chars(a)) - Len(Chars(b)) + 1) :
    SubSeq(Chars(a), from, from + Len(Chars(b)) - 1) = Chars(b)

\* response.matchAll(/\[IMAGEN:\s*([^\]]+)\]/gi): the descriptions, each
\* ref[1].toLowerCase().trim().split(/\s+/)
ImageRefs(rawResponse) ==
  LET refs == SelectSeq(rawResponse, LAMBDA tok : tok[1] = "img")
  IN  [i \in 1..Len(refs) |-> IF Len(refs[i]) = 1 THEN <<"">> ELSE Tail(refs[i])]

\* img.ai_caption.toLowerCase().split(/\s+/)
CaptionWords(img) == IF img.ai_caption[1] = << >> THEN <<"">> ELSE img.ai_caption[1]

\* the score of one image for one description
MatchScore(descWords, img) ==
  Cardinality({i \in 1..Len(descWords) :
                 /\ Len(Chars(descWords[i])) > 3
                 /\ \E j \in 1..Len(CaptionWords(img)) :
                      \/ Includes(CaptionWords(img)[j], descWords[i])
                      \/ Includes(descWords[i], CaptionWords(img)[j])})
  + (IF \E i \in 1..Len(descWords) : Includes(descWords[i], img.image_type[1])
     THEN 2 ELSE 0)

\* the loop over availableImages without the check of usedImageIds
RECURSIVE BestMatchAnyImage(_, _, _, _, _, _)
BestMatchAnyImage(descWords, availableImages, usedImageIds, i, bestMatch, bestScore) ==
  IF i > Len(availableImages) THEN bestMatch
  ELSE IF MatchScore(descWords, availableImages[i]) > bestScore
       THEN BestMatchAnyImage(descWords, availableImages, usedImageIds, i + 1, i,
                              MatchScore(descWords, availableImages[i]))
       ELSE BestMatchAnyImage(descWords, availableImages, usedImageIds, i + 1,
                              bestMatch, bestScore)

\* the loop over availableImages: the position of the first unused image of
\* the highest score, 0 when no score exceeds 0
RECURSIVE BestMatchFrom(_, _, _, _, _, _)
BestMatchFrom(descWords, availableImages, usedImageIds, i, bestMatch, bestScore) ==
  IF i > Len(availableImages) THEN bestMatch
  ELSE LET img == availableImages[i]
           score == MatchScore(descWords, img)
       IN  IF img.id \notin usedImageIds /\ score > bestScore
           THEN BestMatchFrom(descWords, availableImages, usedImageIds, i + 1, i, score)
           ELSE BestMatchFrom(descWords, availableImages, usedImageIds, i + 1,
                              bestMatch, bestScore)

MatchedImage(img) ==
  [url |-> img.image_url, caption |-> img.ai_caption[1], page_number |-> img.page_number]

\* the loop over imageRefs
RECURSIVE MatchRefsFrom(_, _, _, _, _)
MatchRefsFrom(imageRefs, i, availableImages, usedImageIds, matchedImages) ==
  IF i > Len(imageRefs) THEN matchedImages
  ELSE LET best == BestMatchFrom(imageRefs[i], availableImages, usedImageIds, 1, 0, 0)
       IN  IF best > 0
           THEN MatchRefsFrom(imageRefs, i + 1, availableImages,
                              usedImageIds \cup {availableImages[best].id},
                              Append(matchedImages, MatchedImage(availableImages[best])))
           ELSE MatchRefsFrom(imageRefs, i + 1, availableImages, usedImageIds,
                              matchedImages)

\* similarity > 0.4, in hundredths
highlyRelevantThreshold == 40
\* .slice(0, 2)
highlyRelevantCount == 2

matchImagesFromResponse(rawResponse, availableImages) ==
  LET matchedImages == MatchRefsFrom(ImageRefs(rawResponse), 1, availableImages, {}, << >>)
  IN  IF matchedImages = << >> /\ Len(availableImages) > 0
      THEN LET highlyRelevant ==
                 Limit(SelectSeq(availableImages,
                                 LAMBDA img : img.similarity > highlyRelevantThreshold),
                       highlyRelevantCount)
           IN  [i \in 1..Len(highlyRelevant) |-> MatchedImage(highlyRelevant[i])]
      ELSE matchedImages

\* ------------------------------------------------------------------------
\* The fallback path: page analyses parsed from the extracted text
\* ------------------------------------------------------------------------
\* fullText is a sequence of pieces of text and markers "[Página N]". A
\* piece is its characters and, when it consists of digits only, its value.
Piece(text, digits, number) == [marker |-> FALSE, text |-> text, digits |-> digits,
                                number |-> number]
Marker(n) == [marker |-> TRUE, text |-> << >>, digits |-> FALSE, number |-> n]
EmptyPiece == Piece(<< >>, FALSE, 0)

\* fullText.split(/\[Página\s*(\d+)\]/gi): the text before each marker and the
\* digits the marker's group captured, then the text after the last marker
RECURSIVE SplitAtMarkers(_, _)
SplitAtMarkers(fullText, cur) ==
  IF fullText = << >> THEN <<cur>>
  ELSE IF Head(fullText).marker
       THEN <<cur, Piece(T(1), TRUE, Head(fullText).number)>>
              \o SplitAtMarkers(Tail(fullText), EmptyPiece)
       ELSE SplitAtMarkers(Tail(fullText),
                           Piece(Concat(cur.text, Head(fullText).text),
                                 Head(fullText).digits /\ (cur.text = << >> \/ cur.digits),
                                 Head(fullText).number))

\* the loop over parts: a part of digits only is a page number, the part
\* after it the page's text
RECURSIVE PagesFromParts(_, _, _)
PagesFromParts(parts, i, analyses) ==
  IF i > Len(parts) THEN analyses
  ELSE PagesFromParts(parts, i + 1,
         IF parts[i].digits
         THEN Append(analyses,
                     [page_number |-> parts[i].number,
                      text_content |-> IF i + 1 <= Len(parts) THEN Trim(parts[i + 1].text)
                                       ELSE << >>,
                      diagrams |-> << >>, tables |-> << >>])
         ELSE analyses)

\* the characters of fullText outside the markers
RECURSIVE TextOutsideMarkers(_)
TextOutsideMarkers(fullText) ==
  IF fullText = << >> THEN << >>
  ELSE Concat(IF Head(fullText).marker THEN << >> ELSE Head(fullText).text,
              TextOutsideMarkers(Tail(fullText)))

\* "Parse into page analyses" of extractWithAssistantsAPI
parsePageAnalyses(fullText) ==
  LET analyses == PagesFromParts(SplitAtMarkers(fullText, EmptyPiece), 1, << >>)
  IN  IF Len(analyses) = 0 /\ Trim(TextOutsideMarkers(fullText)) # << >>
      THEN << [page_number |-> 1, text_content |-> Trim(TextOutsideMarkers(fullText)),
               diagrams |-> << >>, tables |-> << >>] >>
      ELSE analyses

\* ------------------------------------------------------------------------
\* State
\* ------------------------------------------------------------------------
VARIABLES
  files,            \* bucket user-documents: generation of `${u}/document.pdf`, 0 if none
  documents,        \* table documents, by id
  document_chunks,  \* table document_chunks, a set of rows
  document_images,  \* table document_images, a set of rows
  uploader,         \* PDFUploader.handleFileSelect of each user: "idle" | "uploaded"
  pc,               \* process-pdf handler of each run: the await it is at
  req,              \* its request body
  pdfData,          \* fallback path: the generation of the file it downloaded
  pageAnalyses,     \* its page analyses
  processedImages,  \* its processed images
  response,         \* its response
  concurrent,       \* runs that were active together with another run of the same user_id
  chatPc,           \* chat handler: the await it is at
  chatReq,          \* its request: user_id and the embedding of the message
  relevantChunks,   \* its result of match_documents
  relevantImages,   \* its result of match_images
  chatResponse,     \* its response
  chats,            \* number of chat requests so far
  rpc,              \* the call of match_documents / match_images being served
  rpcResult,        \* the rows it returns
  call,             \* a function of the handlers applied on its own: its name and arguments
  returned,         \* what it returns
  vision,           \* the loop over page_images of the vision path, call by call
  polling,          \* the loop that waits for the assistant run, poll by poll
  chatPage          \* the chat page: its React state and its pending handlers

vars == <<files, documents, document_chunks, document_images, uploader, pc, req, pdfData,
          pageAnalyses, processedImages, response, concurrent, chatPc, chatReq,
          relevantChunks, relevantImages, chatResponse, chats, rpc, rpcResult,
          call, returned, vision, polling, chatPage>>

storeVars == <<files, documents, document_chunks, document_images>>
uploadVars == <<uploader>>
runVars == <<pc, req, pdfData, pageAnalyses, processedImages, response, concurrent>>
chatVars == <<chatPc, chatReq, relevantChunks, relevantImages, chatResponse, chats>>
rpcVars == <<rpc, rpcResult>>
loopVars == <<vision, polling, chatPage>>
unitVars == <<call, returned, loopVars>>

NoDocument == [exists |-> FALSE, processed |-> FALSE, original_filename |-> 0,
               total_pages |-> 0, processing_method |-> "assistants"]
NoRequest == [document_id |-> Missing, user_id |-> Missing, page_images |-> 0,
              embedded_images |-> << >>]
NoResponse == [status |-> 0, success |-> FALSE, error |-> "", chunks_count |-> 0,
               images_count |-> 0, total_pages |-> 0]
NoChatRequest == [user_id |-> Missing, questionEmbedding |-> <<5, 0>>]
\* upstream records, beside the response, what the embedding and completion
\* services replied to the handler
NoChatResponse ==
  [status |-> 0, steps |-> << >>, images |-> << >>, raw_response |-> << >>,
   upstream |-> "none"]
NoApplication == [fn |-> "none", args |-> << >>]
\* beside the loop's variables: outcomes is what the vision call of each page
\* did, started the pages whose call has been made, settled the pages in the
\* order in which their calls settled
NoVision ==
  [state |-> "idle", page_images |-> 0, i |-> 0, pending |-> {}, batchResults |-> << >>,
   pageAnalyses |-> << >>, started |-> {}, outcomes |-> << >>, settled |-> << >>]
\* polls counts the status requests; error is the message thrown; remote is
\* what the function has created at the Assistants API and not deleted
NoPolling ==
  [state |-> "idle", runStatus |-> "none", elapsed |-> 0, polls |-> 0, error |-> "",
   response |-> NoResponse, remote |-> {}]
\* messages, isTyping and hasDocument are the state of the component; sent
\* counts the calls of handleSendMessage that passed its guard, awaiting are
\* those suspended at the chat call, timers the timeouts that are armed,
\* withDocument the calls whose closure holds hasDocument = true
NoPage ==
  [messages |-> << >>, isTyping |-> FALSE, hasDocument |-> FALSE, sent |-> 0,
   awaiting |-> {}, timers |-> {}, withDocument |-> {}]
NoCall == [fn |-> "none", query_embedding |-> <<5, 0>>, match_threshold |-> 0,
           match_count |-> 0, p_user_id |-> Missing]

Init ==
  /\ files = [u \in Users |-> 0]
  /\ documents = [d \in DocIds |-> NoDocument]
  /\ document_chunks = {}
  /\ document_images = {}
  /\ uploader = [u \in Users |-> "idle"]
  /\ pc = [r \in Runs |-> "idle"]
  /\ req = [r \in Runs |-> NoRequest]
  /\ pdfData = [r \in Runs |-> 0]
  /\ pageAnalyses = [r \in Runs |-> << >>]
  /\ processedImages = [r \in Runs |-> << >>]
  /\ response = [r \in Runs |-> NoResponse]
  /\ concurrent = {}
  /\ chatPc = "idle"
  /\ chatReq = NoChatRequest
  /\ relevantChunks = << >>
  /\ relevantImages = << >>
  /\ chatResponse = NoChatResponse
  /\ chats = 0
  /\ rpc = NoCall
  /\ rpcResult = << >>
  /\ call = NoApplication
  /\ returned = << >>
  /\ vision = NoVision
  /\ polling = NoPolling
  /\ chatPage = NoPage

\* ------------------------------------------------------------------------
\* PDFUploader.handleFileSelect: upload to storage, then register the document
\* ------------------------------------------------------------------------
\* storage.from('user-documents').upload(`${userId}/document.pdf`, file, {upsert: true})
RECURSIVE SumOver(_, _)
SumOver(f, S) ==
  IF S = {} THEN 0
  ELSE LET x == CHOOSE y \in S : TRUE IN f[x] + SumOver(f, S \ {x})
Uploads == SumOver(files, Users)

UploadFile(u) ==
  /\ uploader[u] = "idle"
  /\ Uploads < MaxUploads
  /\ \E ok \in BOOLEAN :
       IF ok
       THEN /\ files' = [files EXCEPT ![u] = @ + 1]
            /\ uploader' = [uploader EXCEPT ![u] = "uploaded"]
       ELSE UNCHANGED <<files, uploader>>
  /\ UNCHANGED <<documents, document_chunks, document_images>>
  /\ UNCHANGED <<runVars, chatVars, rpcVars, unitVars>>

\* from('documents').upsert({user_id, file_path, original_filename, processed: false},
\*                          {onConflict: 'user_id'})
RegisterDocument(u) ==
  /\ uploader[u] = "uploaded"
  /\ \E ok \in BOOLEAN :
       documents' =
         IF ok
         THEN [documents EXCEPT ![DocOf(u)] =
                 [@ EXCEPT !.exists = TRUE, !.processed = FALSE,
                           !.original_filename = files[u]]]
         ELSE documents
  /\ uploader' = [uploader EXCEPT ![u] = "idle"]
  /\ UNCHANGED <<files, document_chunks, document_images>>
  /\ UNCHANGED <<runVars, chatVars, rpcVars, unitVars>>

\* ------------------------------------------------------------------------
\* process-pdf: the serve handler, one action per await
\* ------------------------------------------------------------------------
Active(r) == pc[r] \notin {"idle", "done"}

hasPageImages(r) == req[r].page_images > 0

\* the generation of the file whose content the run works on
ContentGen(r) == IF hasPageImages(r) THEN req[r].page_images ELSE pdfData[r]

\* the handler returns: its locals are gone
Forget(r) ==
  /\ pdfData' = [pdfData EXCEPT ![r] = 0]
  /\ pageAnalyses' = [pageAnalyses EXCEPT ![r] = << >>]
  /\ processedImages' = [processedImages EXCEPT ![r] = << >>]

ErrorResponse(msg) ==
  [status |-> 500, success |-> FALSE, error |-> msg, chunks_count |-> 0,
   images_count |-> 0, total_pages |-> 0]

\* throw new Error(msg), caught by the handler's catch
Throw(r, msg) ==
  /\ pc' = [pc EXCEPT ![r] = "done"]
  /\ response' = [response EXCEPT ![r] = ErrorResponse(msg)]
  /\ Forget(r)

\* the outcomes of the vision call and of the image processing explored in Spec
SpecVisionOutcomes == {"ok", "http_error"}
SpecImageOutcomes == {"ok", "upload_error"}

\* the handler goes on to its next await, its locals as they are
Goto(r, label) ==
  /\ pc' = [pc EXCEPT ![r] = label]
  /\ UNCHANGED <<response, pdfData, pageAnalyses, processedImages>>

\* request bodies; page_images is the generation of the file the page images
\* were rendered from, 0 when the request has none
Requests ==
  { [document_id |-> d, user_id |-> u, page_images |-> g, embedded_images |-> e] :
      d \in DocIds \cup {Missing}, u \in Users \cup {Missing},
      g \in 0..MaxUploads, e \in EmbeddedImageSets }

\* req.json(), the check of document_id and user_id, and
\* from("documents").select("*").eq("id", document_id).single()
StartRun(r, request) ==
  /\ pc[r] = "idle"
  /\ request.page_images > 0 =>
       request.user_id \in Users /\ request.page_images = files[request.user_id]
  /\ request.embedded_images # << >> => request.page_images > 0
  /\ req' = [req EXCEPT ![r] = request]
  /\ IF request.document_id = Missing \/ request.user_id = Missing
     THEN /\ pc' = [pc EXCEPT ![r] = "done"]
          /\ response' = [response EXCEPT ![r] =
                            [NoResponse EXCEPT !.status = 400,
                                               !.error = "document_id and user_id are required"]]
          /\ UNCHANGED <<concurrent, pdfData, pageAnalyses, processedImages>>
     ELSE /\ \E ok \in BOOLEAN :
               IF ok /\ documents[request.document_id].exists
               THEN Goto(r, IF request.page_images > 0 THEN "vision" ELSE "download")
               ELSE Throw(r, "Document not found")
          /\ concurrent' =
               LET others == {o \in Runs : o # r /\ Active(o) /\ req[o].user_id = request.user_id}
               IN  IF others = {} THEN concurrent ELSE concurrent \cup others \cup {r}
  /\ UNCHANGED <<storeVars, uploadVars, chatVars, rpcVars, unitVars>>

\* what the vision call of one page does
VisionOutcomes == {"ok", "http_error", "bad_json", "throws"}

EmptyAnalysis(pageNumber) ==
  [page_number |-> pageNumber, text_content |-> << >>, diagrams |-> << >>,
   tables |-> << >>]

\* page: what the page holds; the reply that is not JSON is the page's text
\* after 17 characters of broken JSON
analyzePageWithVision(page, pageNumber, outcome) ==
  CASE outcome = "ok" ->
         [page_number |-> pageNumber, text_content |-> page.text_content,
          diagrams |-> page.diagrams, tables |-> page.tables]
    [] outcome = "bad_json" ->
         [page_number |-> pageNumber,
          text_content |-> Concat(T(17), page.text_content),
          diagrams |-> << >>, tables |-> << >>]
    [] OTHER -> EmptyAnalysis(pageNumber)

\* what the caption call and the upload of one embedded image do
ImageOutcomes == {"ok", "caption_not_ok", "caption_throws", "upload_error"}

minImageSide == 50

RECURSIVE ProcessImagesFrom(_, _, _, _, _, _)
ProcessImagesFrom(images, i, userId, documentId, outcome, processed) ==
  IF i > Len(images) THEN processed
  ELSE LET img == images[i]
           caption == IF outcome[i] = "caption_not_ok" THEN DefaultCaption
                      ELSE FigureCaption
       IN  ProcessImagesFrom(images, i + 1, userId, documentId, outcome,
             IF img.width < minImageSide \/ img.height < minImageSide
                \/ outcome[i] \in {"caption_throws", "upload_error"}
             THEN processed
             ELSE Append(processed,
                         [page_number |-> img.page_number,
                          image_url |-> <<userId, documentId, img.page_number, i - 1>>,
                          ai_caption |-> caption,
                          image_type |-> detectImageType(caption),
                          width |-> img.width, height |-> img.height]))

processEmbeddedImages(images, userId, documentId, outcome) ==
  ProcessImagesFrom(images, 1, userId, documentId, outcome, << >>)

\* vision path: the loop over batches of 3 page images with Promise.all of
\* each batch, then processEmbeddedImages.  Neither reads nor writes the tables.
AnalyzePages(r) ==
  /\ pc[r] = "vision"
  /\ LET page_images == FilePages(req[r].page_images) IN
     \E o \in SpecVisionOutcomes : \E outcome \in {[i \in 1..Len(page_images) |-> o]} :
       pageAnalyses' = [pageAnalyses EXCEPT ![r] =
         [i \in 1..Len(page_images) |->
            analyzePageWithVision(page_images[i], i, outcome[i])]]
  /\ \E o \in SpecImageOutcomes : \E outcome \in {[i \in 1..Len(req[r].embedded_images) |-> o]} :
       processedImages' = [processedImages EXCEPT ![r] =
         processEmbeddedImages(req[r].embedded_images, req[r].user_id,
                               req[r].document_id, outcome)]
  /\ pc' = [pc EXCEPT ![r] = "clear_chunks"]
  /\ UNCHANGED <<req, pdfData, response, concurrent>>
  /\ UNCHANGED <<storeVars, uploadVars, chatVars, rpcVars, unitVars>>

\* storage.from("user-documents").download(doc.file_path) and the 20MB check
DownloadOutcomes == {"ok", "download_error", "too_large"}

\* how the assistant run ends
ExtractOutcomes == {"completed", "failed", "timeout"}

\* the page analyses parsed from the extracted text: text only
TextOnly(pages) ==
  [i \in 1..Len(pages) |->
     [page_number |-> pages[i].page_number, text_content |-> pages[i].text_content,
      diagrams |-> << >>, tables |-> << >>]]

\* fallback path: the download, the size check and extractWithAssistantsAPI
Download(r) ==
  /\ pc[r] = "download"
  /\ \E outcome \in DownloadOutcomes, extraction \in ExtractOutcomes :
       LET file == files[OwnerOf(req[r].document_id)] IN
       IF outcome # "ok" \/ file = 0
       THEN Throw(r, IF outcome = "too_large" /\ file > 0
                     THEN "El PDF es demasiado grande" ELSE "Download failed")
       ELSE IF extraction # "completed"
       THEN Throw(r, IF extraction = "timeout" THEN "Timeout al procesar el documento"
                     ELSE "Extraction failed")
       ELSE /\ pdfData' = [pdfData EXCEPT ![r] = file]
            /\ pageAnalyses' = [pageAnalyses EXCEPT ![r] = TextOnly(FilePages(file))]
            /\ pc' = [pc EXCEPT ![r] = "clear_chunks"]
            /\ UNCHANGED <<response, processedImages>>
  /\ UNCHANGED <<req, concurrent>>
  /\ UNCHANGED <<storeVars, uploadVars, chatVars, rpcVars, unitVars>>

\* the longest text sent to the embeddings API
maxEmbeddingInput == 8000

\* const batchSize = 20
embeddingBatchSize == 20

\* the rest of the texts in one request
BatchUncapped(texts, i) ==
  [k \in 1..(Len(texts) - i) |-> Take(texts[i + k], maxEmbeddingInput)]

\* texts.slice(i, i + batchSize).map(t => t.slice(0, 8000))
BatchAt(texts, i) ==
  [k \in 1..Min(embeddingBatchSize, Len(texts) - i) |->
     Take(texts[i + k], maxEmbeddingInput)]

\* data.data of the embeddings service for one request: one embedding per
\* input, in the order of the inputs
EmbeddingsData(batch) == [k \in 1..Len(batch) |-> Embedding(batch[k])]

\* the loop for (i = 0; i < texts.length; i += batchSize); replies[n] tells
\* whether the n-th request is answered OK. The requests sent are kept
\* beside the outcome; a throw leaves the caller without results.
RECURSIVE EmbedBatchesFrom(_, _, _, _, _)
EmbedBatchesFrom(texts, i, replies, results, requests) ==
  IF i >= Len(texts)
  THEN [thrown |-> FALSE, results |-> results, requests |-> requests]
  ELSE LET batch == BatchAt(texts, i) IN
       IF ~replies[Len(requests) + 1]
       THEN [thrown |-> TRUE, results |-> << >>, requests |-> Append(requests, batch)]
       ELSE EmbedBatchesFrom(texts, i + embeddingBatchSize, replies,
                             results \o EmbeddingsData(batch), Append(requests, batch))

EmbedBatches(texts, replies) ==
  IF Len(texts) = 0 THEN [thrown |-> FALSE, results |-> << >>, requests |-> << >>]
  ELSE EmbedBatchesFrom(texts, 0, replies, << >>, << >>)

\* batchGenerateEmbeddings when every request is answered OK
batchGenerateEmbeddings(texts) ==
  EmbedBatches(texts, [n \in 1..Len(texts) |-> TRUE]).results

chunksOf(r) == createSemanticChunks(pageAnalyses[r])

\* chunks.map((chunk, i) => ({user_id, document_id, ..., embedding: embeddings[i]}));
\* id is the key the table gives the row, gen the generation of the file the
\* content comes from; a column the insert does not name is NULL
chunksToInsert(r) ==
  LET chunks == chunksOf(r)
      embeddings == batchGenerateEmbeddings([i \in 1..Len(chunks) |-> chunks[i].content])
  IN  { [id |-> <<r, i>>, user_id |-> req[r].user_id, document_id |-> req[r].document_id,
         gen |-> ContentGen(r), content |-> chunks[i].content,
         page_number |-> chunks[i].page_number, chunk_index |-> chunks[i].chunk_index,
         has_diagram |-> chunks[i].has_diagram,
         diagram_description |-> chunks[i].diagram_description,
         embedding |-> Some(embeddings[i])] : i \in 1..Len(chunks) }

imagesToInsert(r) ==
  LET imgs == processedImages[r]
      imageEmbeddings ==
        batchGenerateEmbeddings([i \in 1..Len(imgs) |-> CaptionText(imgs[i].ai_caption)])
  IN  { [id |-> <<r, i>>, user_id |-> req[r].user_id, document_id |-> req[r].document_id,
         gen |-> ContentGen(r), page_number |-> imgs[i].page_number,
         image_url |-> imgs[i].image_url, image_type |-> Some(imgs[i].image_type),
         ai_caption |-> Some(imgs[i].ai_caption), context |-> Null,
         width |-> imgs[i].width, height |-> imgs[i].height,
         embedding |-> Some(imageEmbeddings[i])] :
        i \in 1..Len(imgs) }

\* DELETE FROM table WHERE user_id = user_id
DeleteByUser(table, user_id) == {row \in table : row.user_id # user_id}

\* from("document_chunks").delete().eq("user_id", user_id); the result is not read
ClearChunks(r) ==
  /\ pc[r] = "clear_chunks"
  /\ \E ok \in BOOLEAN :
       document_chunks' =
         IF ok THEN DeleteByUser(document_chunks, req[r].user_id) ELSE document_chunks
  /\ Goto(r, "clear_images")
  /\ UNCHANGED <<files, documents, document_images>>
  /\ UNCHANGED <<req, concurrent>>
  /\ UNCHANGED <<uploadVars, chatVars, rpcVars, unitVars>>

\* the same step without the check chunks.length === 0: what C6 excludes
ClearImagesUnchecked(r) ==
  /\ pc[r] = "clear_images"
  /\ \E ok \in BOOLEAN :
       document_images' =
         IF ok THEN DeleteByUser(document_images, req[r].user_id) ELSE document_images
  /\ \E embedded \in BOOLEAN :
       IF embedded THEN Goto(r, "insert_chunks") ELSE Throw(r, "Embeddings failed")
  /\ UNCHANGED <<files, documents, document_chunks>>
  /\ UNCHANGED <<req, concurrent>>
  /\ UNCHANGED <<uploadVars, chatVars, rpcVars, unitVars>>

\* from("document_images").delete().eq("user_id", user_id); the result is not
\* read.  Then createSemanticChunks, the check chunks.length === 0 and
\* batchGenerateEmbeddings of the chunk texts
ClearImages(r) ==
  /\ pc[r] = "clear_images"
  /\ \E ok \in BOOLEAN :
       document_images' =
         IF ok THEN DeleteByUser(document_images, req[r].user_id) ELSE document_images
  /\ IF Len(chunksOf(r)) = 0
     THEN Throw(r, "No se pudo extraer contenido del documento")
     ELSE \E embedded \in BOOLEAN :
            IF embedded THEN Goto(r, "insert_chunks") ELSE Throw(r, "Embeddings failed")
  /\ UNCHANGED <<files, documents, document_chunks>>
  /\ UNCHANGED <<req, concurrent>>
  /\ UNCHANGED <<uploadVars, chatVars, rpcVars, unitVars>>

\* from("document_chunks").insert(chunksToInsert); then, if there are
\* processed images, batchGenerateEmbeddings of their captions
InsertChunks(r) ==
  /\ pc[r] = "insert_chunks"
  /\ \E ok \in BOOLEAN :
       IF ~ok
       THEN /\ UNCHANGED document_chunks
            /\ Throw(r, "Failed to insert chunks")
       ELSE /\ document_chunks' = document_chunks \cup chunksToInsert(r)
            /\ IF Len(processedImages[r]) > 0
               THEN \E embedded \in BOOLEAN :
                      IF embedded THEN Goto(r, "insert_images")
                      ELSE Throw(r, "Embeddings failed")
               ELSE Goto(r, "mark")
  /\ UNCHANGED <<files, documents, document_images>>
  /\ UNCHANGED <<req, concurrent>>
  /\ UNCHANGED <<uploadVars, chatVars, rpcVars, unitVars>>

\* from("document_images").insert(imagesToInsert); an error is logged only
InsertImages(r) ==
  /\ pc[r] = "insert_images"
  /\ \E ok \in BOOLEAN :
       document_images' =
         IF ok THEN document_images \cup imagesToInsert(r) ELSE document_images
  /\ Goto(r, "mark")
  /\ UNCHANGED <<files, documents, document_chunks>>
  /\ UNCHANGED <<req, concurrent>>
  /\ UNCHANGED <<uploadVars, chatVars, rpcVars, unitVars>>

\* from("documents").update({processed: true, total_pages, processing_method})
\* .eq("id", document_id); the result is not read.  Then the success response
MarkProcessed(r) ==
  /\ pc[r] = "mark"
  /\ \E ok \in BOOLEAN :
       documents' =
         IF ok /\ documents[req[r].document_id].exists
         THEN [documents EXCEPT ![req[r].document_id] =
                 [@ EXCEPT !.processed = TRUE,
                           !.total_pages = Len(pageAnalyses[r]),
                           !.processing_method =
                              IF hasPageImages(r) THEN "vision" ELSE "assistants"]]
         ELSE documents
  /\ pc' = [pc EXCEPT ![r] = "done"]
  /\ response' = [response EXCEPT ![r] =
       [status |-> 200, success |-> TRUE, error |-> "",
        chunks_count |-> Len(chunksOf(r)),
        images_count |-> Len(processedImages[r]),
        total_pages |-> Len(pageAnalyses[r])]]
  /\ Forget(r)
  /\ UNCHANGED <<files, document_chunks, document_images>>
  /\ UNCHANGED <<req, concurrent>>
  /\ UNCHANGED <<uploadVars, chatVars, rpcVars, unitVars>>

\* ------------------------------------------------------------------------
\* chat: the serve handler, one action per await
\* ------------------------------------------------------------------------
\* embeddings of the questions asked
QueryVecs == {<<3, 4>>}

\* match_threshold: 0.25, in hundredths
chatMatchThreshold == 25
chunkMatchCount == 6
imageMatchCount == 4

\* "Lo siento, ha ocurrido un error al procesar tu consulta. ..."
Apology == << <<"w", "Lo siento">> >>

\* the catch block of the handler
CaughtResponse(failure) ==
  [status |-> 500, steps |-> <<Apology>>, images |-> << >>, raw_response |-> << >>,
   upstream |-> failure]

\* the completion call: a reply with content; a status that is not OK; a
\* body that is not JSON; a body without choices; choices without content
CompletionOutcomes == {"ok", "http_error", "bad_json", "no_choices", "no_content"}

\* contents of a completion
Completions ==
  { << <<"w", "First.">> >>,
    << <<"w", "First.">>, <<"sp">>, <<"img", "diagrama", "conexiones">> >> }

\* generateEmbedding(message, openaiApiKey)
ChatStart(user_id, q) ==
  /\ chatPc = "idle"
  /\ chats < MaxChats
  /\ chats' = chats + 1
  /\ relevantChunks' = << >>
  /\ relevantImages' = << >>
  /\ \E ok \in BOOLEAN :
       IF ok
       THEN /\ chatPc' = "match_documents"
            /\ chatReq' = [user_id |-> user_id, questionEmbedding |-> q]
            /\ chatResponse' = NoChatResponse
       ELSE /\ chatPc' = "idle"
            /\ chatReq' = NoChatRequest
            /\ chatResponse' = CaughtResponse("embedding_failed")
  /\ UNCHANGED <<storeVars, uploadVars, runVars, rpcVars, unitVars>>

\* supabase.rpc("match_documents", ...); on an error data is null, and the
\* handler goes on with relevantChunks || []
ChatMatchDocuments ==
  /\ chatPc = "match_documents"
  /\ \E ok \in BOOLEAN :
       IF ok
       THEN relevantChunks' \in match_documents(document_chunks, chatReq.questionEmbedding,
                                               chatMatchThreshold, chunkMatchCount,
                                               chatReq.user_id)
       ELSE relevantChunks' = << >>
  /\ chatPc' = "match_images"
  /\ UNCHANGED <<chatReq, relevantImages, chatResponse, chats>>
  /\ UNCHANGED <<storeVars, uploadVars, runVars, rpcVars, unitVars>>

\* supabase.rpc("match_images", ...)
ChatMatchImages ==
  /\ chatPc = "match_images"
  /\ \E ok \in BOOLEAN :
       IF ok
       THEN relevantImages' \in match_images(document_images, chatReq.questionEmbedding,
                                             chatMatchThreshold, imageMatchCount,
                                             chatReq.user_id)
       ELSE relevantImages' = << >>
  /\ chatPc' = "complete"
  /\ UNCHANGED <<chatReq, relevantChunks, chatResponse, chats>>
  /\ UNCHANGED <<storeVars, uploadVars, runVars, rpcVars, unitVars>>

\* the completion call and the response
ChatComplete ==
  /\ chatPc = "complete"
  /\ \E outcome \in CompletionOutcomes, rawResponse \in Completions :
       chatResponse' =
         IF outcome \in {"http_error", "bad_json", "no_choices"}
         THEN CaughtResponse(outcome)
         ELSE LET content == IF outcome = "ok" THEN rawResponse ELSE << >>
              IN  [status |-> 200, steps |-> parseSteps(content),
                   images |-> matchImagesFromResponse(content, relevantImages),
                   raw_response |-> content, upstream |-> outcome]
  /\ chatPc' = "idle"
  /\ chatReq' = NoChatRequest
  /\ relevantChunks' = << >>
  /\ relevantImages' = << >>
  /\ UNCHANGED chats
  /\ UNCHANGED <<storeVars, uploadVars, runVars, rpcVars, unitVars>>

\* ------------------------------------------------------------------------
\* The retriever on its own: match_documents and match_images called with
\* any arguments over tables of any content
\* ------------------------------------------------------------------------
\* number of rows a table is filled from
MaxRows == 4
\* largest match_count asked for
MaxCount == 2

RetrieverQueries == {<<3, 4>>, <<5, 0>>}
\* 0.25, 0.80, 0.96
RetrieverThresholds == {25, 80, 96}

\* row i of either table: its owner and its embedding
RowUser(i) == IF i % 3 = 0 THEN "u2" ELSE "u1"
RowVec(i) ==
  CASE i % 4 = 1 -> <<4, 3>>
    [] i % 4 = 2 -> <<4, 3>>
    [] i % 4 = 3 -> <<3, 4>>
    [] OTHER -> <<0, 5>>

StoredChunk(i) ==
  [id |-> <<"row", i>>, user_id |-> RowUser(i), document_id |-> DocOf(RowUser(i)),
   gen |-> 1, content |-> T(100 + i), page_number |-> 1, chunk_index |-> i - 1,
   has_diagram |-> FALSE, diagram_description |-> Null,
   embedding |-> Some(RowVec(i))]

\* every fourth image row has no embedding, every other one no caption
StoredImage(i) ==
  [id |-> <<"row", i>>, user_id |-> RowUser(i), document_id |-> DocOf(RowUser(i)),
   gen |-> 1, page_number |-> 1, image_url |-> <<RowUser(i), DocOf(RowUser(i)), 1, i>>,
   image_type |-> IF i % 2 = 0 THEN Null ELSE Some("photo"),
   ai_caption |-> IF i % 2 = 0 THEN Null ELSE Some(FigureCaption),
   context |-> Null, width |-> 200, height |-> 100,
   embedding |-> IF i % 4 = 0 THEN Null ELSE Some(RowVec(i + 1))]

\* INSERT INTO document_chunks
StoreInsertChunk(i) ==
  /\ rpc = NoCall
  /\ StoredChunk(i) \notin document_chunks
  /\ document_chunks' = document_chunks \cup {StoredChunk(i)}
  /\ UNCHANGED <<files, documents, document_images>>
  /\ UNCHANGED <<uploadVars, runVars, chatVars, rpcVars, unitVars>>

\* INSERT INTO document_images
StoreInsertImage(i) ==
  /\ rpc = NoCall
  /\ StoredImage(i) \notin document_images
  /\ document_images' = document_images \cup {StoredImage(i)}
  /\ UNCHANGED <<files, documents, document_chunks>>
  /\ UNCHANGED <<uploadVars, runVars, chatVars, rpcVars, unitVars>>

\* DELETE FROM document_chunks WHERE user_id = u
StoreDeleteChunks(u) ==
  /\ rpc = NoCall
  /\ document_chunks' = DeleteByUser(document_chunks, u)
  /\ document_chunks' # document_chunks
  /\ UNCHANGED <<files, documents, document_images>>
  /\ UNCHANGED <<uploadVars, runVars, chatVars, rpcVars, unitVars>>

\* DELETE FROM document_images WHERE user_id = u
StoreDeleteImages(u) ==
  /\ rpc = NoCall
  /\ document_images' = DeleteByUser(document_images, u)
  /\ document_images' # document_images
  /\ UNCHANGED <<files, documents, document_chunks>>
  /\ UNCHANGED <<uploadVars, runVars, chatVars, rpcVars, unitVars>>

\* SELECT * FROM match_documents(q, th, k, u)
RpcMatchDocuments(q, th, k, u) ==
  /\ rpc = NoCall
  /\ rpc' = [fn |-> "match_documents", query_embedding |-> q, match_threshold |-> th,
             match_count |-> k, p_user_id |-> u]
  /\ rpcResult' \in match_documents(document_chunks, q, th, k, u)
  /\ UNCHANGED <<storeVars, uploadVars, runVars, chatVars, unitVars>>

\* SELECT * FROM match_images(q, th, k, u)
RpcMatchImages(q, th, k, u) ==
  /\ rpc = NoCall
  /\ rpc' = [fn |-> "match_images", query_embedding |-> q, match_threshold |-> th,
             match_count |-> k, p_user_id |-> u]
  /\ rpcResult' \in match_images(document_images, q, th, k, u)
  /\ UNCHANGED <<storeVars, uploadVars, runVars, chatVars, unitVars>>

\* the rows are handed to the caller
RpcReturn ==
  /\ rpc # NoCall
  /\ rpc' = NoCall
  /\ rpcResult' = << >>
  /\ UNCHANGED <<storeVars, uploadVars, runVars, chatVars, unitVars>>

\* ------------------------------------------------------------------------
\* Functions of the handlers applied on their own, to inputs of every shape
\* ------------------------------------------------------------------------
\* number of lines of a completion
MaxLines == 2

StepWord(n) ==
  <<"w", CASE n = 1 -> "First." [] n = 2 -> "Second." [] OTHER -> "Next.">>

LineKinds == {"numbered", "tight", "indented", "paso", "inline", "plain", "blank", "empty"}

\* line n of a completion: "n. word", "n.word", " n. word", "Paso n word",
\* "word n. word", "word", " " and ""
Line(kind, n) ==
  LET num == <<"num", CASE n = 1 -> "1" [] n = 2 -> "2" [] OTHER -> "3">> IN
  CASE kind = "numbered" -> <<num, <<"dot">>, <<"sp">>, StepWord(n)>>
    [] kind = "tight" -> <<num, <<"dot">>, StepWord(n)>>
    [] kind = "indented" -> << <<"sp">>, num, <<"dot">>, <<"sp">>, StepWord(n)>>
    [] kind = "paso" -> << <<"paso">>, <<"sp">>, num, <<"sp">>, StepWord(n)>>
    [] kind = "inline" -> <<StepWord(n), <<"sp">>, num, <<"dot">>, <<"sp">>, StepWord(n)>>
    [] kind = "plain" -> <<StepWord(n)>>
    [] kind = "blank" -> << <<"sp">> >>
    [] OTHER -> << >>

\* "\n" and "\n\n"
LineBreaks == { << <<"nl">> >>, << <<"nl">>, <<"nl">> >> }

\* the completions of exactly n lines
RECURSIVE ResponsesOf(_)
ResponsesOf(n) ==
  IF n = 1 THEN {Line(kind, 1) : kind \in LineKinds}
  ELSE {r \o br \o Line(kind, n) : r \in ResponsesOf(n - 1), br \in LineBreaks,
                                   kind \in LineKinds}

Responses == UNION {ResponsesOf(n) : n \in 1..MaxLines}

\* const steps = parseSteps(rawResponse)
ApplyParseSteps(rawResponse) ==
  /\ call = NoApplication
  /\ call' = [fn |-> "parseSteps", args |-> <<rawResponse>>]
  /\ returned' = parseSteps(rawResponse)
  /\ UNCHANGED <<storeVars, uploadVars, runVars, chatVars, rpcVars, loopVars>>

\* number of images a retrieval hands to the matcher, number of
\* [IMAGEN: ...] references in a completion
MaxImages == 2
MaxRefs == 2

\* rows of match_images as the handler receives them
AvailableCaption(i) ==
  CASE i = 1 -> <<"foto", "motor", "trifasico">>
    [] i = 2 -> <<"esquema", "general">>
    [] i = 3 -> FigureCaption
    [] OTHER -> DefaultCaption

AvailableImage(i) ==
  [id |-> <<"row", i>>, image_url |-> <<"u1", "d1", i, 1>>, page_number |-> i,
   context |-> Null, ai_caption |-> Some(AvailableCaption(i)),
   image_type |-> Some(detectImageType(AvailableCaption(i))),
   similarity |-> CASE i = 1 -> 60 [] i = 2 -> 30 [] i = 3 -> 96 [] OTHER -> 45]

RECURSIVE ImageListsOf(_)
ImageListsOf(n) ==
  IF n = 0 THEN {<< >>}
  ELSE {Append(s, AvailableImage(i)) :
          s \in ImageListsOf(n - 1), i \in 1..4}

AvailableImageLists ==
  {s \in UNION {ImageListsOf(n) : n \in 0..MaxImages} :
     \A i, j \in 1..Len(s) : i # j => s[i].id # s[j].id}

\* "[IMAGEN: ...]" with each description
RefTokens ==
  {<<"img">>, <<"img", "motor">>, <<"img", "diagrama", "motor">>,
   <<"img", "conexiones">>, <<"img", "foto", "del", "motor">>}

RECURSIVE RefsOf(_)
RefsOf(n) ==
  IF n = 0 THEN {<< >>}
  ELSE {r \o <<StepWord(n), tok>> : r \in RefsOf(n - 1), tok \in RefTokens}

ReferringResponses == UNION {RefsOf(n) : n \in 0..MaxRefs}

\* const images = matchImagesFromResponse(rawResponse, relevantImages || [])
ApplyMatchImages(rawResponse, availableImages) ==
  /\ call = NoApplication
  /\ call' = [fn |-> "matchImagesFromResponse", args |-> <<rawResponse, availableImages>>]
  /\ returned' = matchImagesFromResponse(rawResponse, availableImages)
  /\ UNCHANGED <<storeVars, uploadVars, runVars, chatVars, rpcVars, loopVars>>

\* number of paragraphs of a page
MaxParagraphs == 3

\* lengths of a paragraph: below the 50 of the filter, above it, half a
\* chunk, more than a chunk and its overlap
ParagraphLengths == {20, 60, 450, 950}

\* the page texts of exactly n paragraphs, separated by "\n\n"
RECURSIVE PageTextsOf(_)
PageTextsOf(n) ==
  IF n = 1 THEN {T(len) : len \in ParagraphLengths}
  ELSE {Concat(Concat(text, ParaSep), T(len)) :
          text \in PageTextsOf(n - 1), len \in ParagraphLengths}

\* the empty text, a text of blanks, and the texts of paragraphs
PageTexts ==
  {<< >>, << <<"s", 3>> >>} \cup UNION {PageTextsOf(n) : n \in 1..MaxParagraphs}

\* tables of a page: none, a short one, a long one without a title, one
\* without content before one with content
PageTables ==
  { << >>, << [title |-> T(5), content |-> T(30)] >>,
    << [title |-> << >>, content |-> T(1000)] >>,
    << [title |-> T(4), content |-> << >>], [title |-> T(6), content |-> T(40)] >> }

\* descriptions of the diagrams of a page: none, one, two
PageDiagrams ==
  { << >>, <<"esquema de conexiones">>, <<"esquema de conexiones", "foto del variador">> }

\* the texts of a page that is mostly tables and diagrams
ShortPageTexts == {<< >>, << <<"s", 3>> >>} \cup PageTextsOf(1)

\* analyses of one page (of prose only, or of tables and diagrams with at
\* most one paragraph), and of the pages of a whole file
AnalysesLists ==
  { << [page_number |-> 1, text_content |-> text, diagrams |-> << >>,
        tables |-> << >>] >> : text \in PageTexts }
  \cup
  { << [page_number |-> 1, text_content |-> text, diagrams |-> diagrams,
        tables |-> tables] >> :
      text \in ShortPageTexts, tables \in PageTables, diagrams \in PageDiagrams }
  \cup {FilePages(1), FilePages(2)}

\* const chunks = createSemanticChunks(pageAnalyses)
ApplyCreateSemanticChunks(analyses) ==
  /\ call = NoApplication
  /\ call' = [fn |-> "createSemanticChunks", args |-> <<analyses>>]
  /\ returned' = createSemanticChunks(analyses)
  /\ UNCHANGED <<storeVars, uploadVars, runVars, chatVars, rpcVars, loopVars>>

\* number of texts handed to batchGenerateEmbeddings
MaxTexts == 41

\* n texts, of lengths that differ from one to the next, some of them longer
\* than the 8000 characters the service is sent
TextsOf(n) == [i \in 1..n |-> T(IF i % 7 = 0 THEN maxEmbeddingInput + i ELSE 100 + i)]

\* the number of requests n texts take
RequestsFor(n) == (n + embeddingBatchSize - 1) \div embeddingBatchSize

\* const embeddings = await batchGenerateEmbeddings(chunks.map(c => c.content), ...)
ApplyBatchGenerateEmbeddings(texts, replies) ==
  /\ call = NoApplication
  /\ call' = [fn |-> "batchGenerateEmbeddings", args |-> <<texts, replies>>]
  /\ returned' = EmbedBatches(texts, replies)
  /\ UNCHANGED <<storeVars, uploadVars, runVars, chatVars, rpcVars, loopVars>>

\* number of embedded images of a request
MaxEmbedded == 2

\* width and height of an embedded image: a figure, one side just below
\* the 50 pixels, both sides exactly 50
ImageSizes == {<<200, 100>>, <<50, 49>>, <<50, 50>>}

EmbeddedImageLists ==
  UNION {[1..n -> {[page_number |-> 1, width |-> size[1], height |-> size[2]] :
                     size \in ImageSizes}] : n \in 1..MaxEmbedded}

\* processedImages = await processEmbeddedImages(embedded_images, user_id, ...)
ApplyProcessEmbeddedImages(images, outcome) ==
  /\ call = NoApplication
  /\ call' = [fn |-> "processEmbeddedImages", args |-> <<images, outcome>>]
  /\ returned' = processEmbeddedImages(images, "u1", "d1", outcome)
  /\ UNCHANGED <<storeVars, uploadVars, runVars, chatVars, rpcVars, loopVars>>

\* number of page markers in an extracted text
MaxMarkers == 2

\* the text between markers: none, prose, prose between line breaks, a
\* number, blanks
MarkedTexts ==
  { << >>, <<Piece(T(30), FALSE, 0)>>,
    <<Piece(Concat(Concat(NewLine, T(40)), NewLine), FALSE, 0)>>,
    <<Piece(T(2), TRUE, 42)>>, <<Piece(NewLine, FALSE, 0)>> }

\* the text of a page after its marker: none, prose between line breaks,
\* a number
PageBodies ==
  { << >>, <<Piece(Concat(Concat(NewLine, T(40)), NewLine), FALSE, 0)>>,
    <<Piece(T(2), TRUE, 42)>> }

\* the extracted texts with exactly n markers: the n-th marker carries n,
\* or 7 where the assistant skipped pages
RECURSIVE FullTextsOf(_)
FullTextsOf(n) ==
  IF n = 0 THEN MarkedTexts
  ELSE {text \o <<Marker(number)>> \o after :
          text \in FullTextsOf(n - 1), number \in {n, 7}, after \in PageBodies}

FullTexts == UNION {FullTextsOf(n) : n \in 0..MaxMarkers}

\* extractWithAssistantsAPI: fullText parsed into page analyses
ApplyParsePageAnalyses(fullText) ==
  /\ call = NoApplication
  /\ call' = [fn |-> "parsePageAnalyses", args |-> <<fullText>>]
  /\ returned' = parsePageAnalyses(fullText)
  /\ UNCHANGED <<storeVars, uploadVars, runVars, chatVars, rpcVars, loopVars>>

\* the caller takes the result; the next application starts afresh
TakeResult ==
  /\ call # NoApplication
  /\ call' = NoApplication
  /\ returned' = << >>
  /\ UNCHANGED <<storeVars, uploadVars, runVars, chatVars, rpcVars, loopVars>>

\* ------------------------------------------------------------------------
\* The vision path, one call of analyzePageWithVision at a time
\* ------------------------------------------------------------------------
\* number of page images of a request
MaxPages == 4

\* const batchSize = 3
visionBatchSize == 3

\* what page p shows
PageImage(p) ==
  [text_content |-> T(100 + p), diagrams |-> << >>,
   tables |-> IF p % 2 = 0 THEN << [title |-> T(5), content |-> T(30)] >> ELSE << >>]

\* every remaining page in one group
VisionBatchWhole(i, n) == 0..(n - i - 1)

\* the indexes idx of batch = page_images.slice(i, i + batchSize)
VisionBatch(i, n) == 0..(Min(visionBatchSize, n - i) - 1)

\* batch.map((img, idx) => analyzePageWithVision(img, i + idx + 1, ...)):
\* every call of the group is made before the handler awaits Promise.all
StartBatch(v, i) ==
  LET batch == VisionBatch(i, v.page_images) IN
  [v EXCEPT !.state = "batch", !.i = i, !.pending = batch,
            !.batchResults = [k \in 1..Cardinality(batch) |-> Null],
            !.started = v.started \cup {i + idx + 1 : idx \in batch}]

\* if (hasPageImages): the loop is entered
VisionStart(n) ==
  /\ vision.state = "idle"
  /\ vision' = StartBatch([NoVision EXCEPT !.page_images = n,
                                          !.outcomes = [p \in 1..n |-> "none"]], 0)
  /\ UNCHANGED <<storeVars, uploadVars, runVars, chatVars, rpcVars, call, returned,
                 polling, chatPage>>

\* one call of the group in flight settles, in any order
VisionPageDone(idx, outcome) ==
  /\ vision.state = "batch"
  /\ idx \in vision.pending
  /\ LET pageNumber == vision.i + idx + 1 IN
     vision' = [vision EXCEPT
                  !.pending = vision.pending \ {idx},
                  !.batchResults[idx + 1] =
                     Some(analyzePageWithVision(PageImage(vision.i + idx + 1), pageNumber,
                                                outcome)),
                  !.outcomes[pageNumber] = outcome,
                  !.settled = Append(vision.settled, pageNumber)]
  /\ UNCHANGED <<storeVars, uploadVars, runVars, chatVars, rpcVars, call, returned,
                 polling, chatPage>>

\* Promise.all resolves; pageAnalyses.push(...batchResults); i += batchSize
VisionBatchDone ==
  /\ vision.state = "batch"
  /\ vision.pending = {}
  /\ LET collected ==
           [vision EXCEPT
              !.pageAnalyses = vision.pageAnalyses \o
                 [k \in 1..Len(vision.batchResults) |-> vision.batchResults[k][1]],
              !.batchResults = << >>]
         next == vision.i + visionBatchSize
     IN  vision' = IF next < vision.page_images THEN StartBatch(collected, next)
                   ELSE [collected EXCEPT !.state = "done", !.i = next]
  /\ UNCHANGED <<storeVars, uploadVars, runVars, chatVars, rpcVars, call, returned,
                 polling, chatPage>>

\* ------------------------------------------------------------------------
\* The fallback path waiting for the assistant run, one poll at a time
\* ------------------------------------------------------------------------
\* times are in milliseconds
maxWaitTime == 180000
pollInterval == 2000

\* a status request takes up to LatencySteps seconds to be answered
LatencySteps == 1
FetchLatencies == {k * 1000 : k \in 0..LatencySteps}

\* run.status and statusData.status: statuses of the Assistants API, and
\* the value read from a reply without a status
RunStatuses == {"in_progress", "completed", "failed", "cancelled", "expired", "undefined"}

\* the loop is never left for the time that has passed
NeverTimedOut(elapsed) == FALSE

\* Date.now() - startTime > maxWaitTime
TimedOut(elapsed) == elapsed > maxWaitTime

\* the condition of the while loop
Waiting(runStatus) == runStatus \notin {"completed", "failed", "cancelled"}

\* the throw reaches the catch block of the handler
PollingFailed(p, error) ==
  [p EXCEPT !.state = "failed", !.error = error, !.response = ErrorResponse(error)]

\* the file is uploaded, the assistant, the thread and the run are created;
\* let runStatus = run.status; const startTime = Date.now()
PollStart(status) ==
  /\ polling.state = "idle"
  /\ polling' = [polling EXCEPT !.state = "loop", !.runStatus = status,
                                !.remote = {"file", "assistant"}]
  /\ UNCHANGED <<storeVars, uploadVars, runVars, chatVars, rpcVars, call, returned,
                 vision, chatPage>>

\* one iteration: the timeout check, the sleep, the status request (which
\* may throw) and runStatus = statusData.status
PollIteration(latency, reply) ==
  /\ polling.state = "loop"
  /\ Waiting(polling.runStatus)
  /\ polling' =
       IF TimedOut(polling.elapsed)
       THEN PollingFailed(polling, "Timeout al procesar el documento")
       ELSE LET polled == [polling EXCEPT !.elapsed = polling.elapsed + pollInterval + latency,
                                          !.polls = polling.polls + 1]
            IN  IF reply = "throws" THEN PollingFailed(polled, "fetch failed")
                ELSE [polled EXCEPT !.runStatus = reply]
  /\ UNCHANGED <<storeVars, uploadVars, runVars, chatVars, rpcVars, call, returned,
                 vision, chatPage>>

\* the loop is left: if (runStatus !== "completed") throw ...
PollLeave ==
  /\ polling.state = "loop"
  /\ ~Waiting(polling.runStatus)
  /\ polling' = IF polling.runStatus # "completed"
                THEN PollingFailed(polling, "Extraction failed")
                ELSE [polling EXCEPT !.state = "extracting"]
  /\ UNCHANGED <<storeVars, uploadVars, runVars, chatVars, rpcVars, call, returned,
                 vision, chatPage>>

\* after the loop: the messages are fetched (the request may throw), then
\* DELETE of the assistant and DELETE of the file, whose replies are not read
PollCleanup(fetched, deleted) ==
  /\ polling.state = "extracting"
  /\ polling' = IF ~fetched THEN PollingFailed(polling, "fetch failed")
                ELSE [polling EXCEPT !.state = "extracted",
                                     !.remote = polling.remote \ deleted]
  /\ UNCHANGED <<storeVars, uploadVars, runVars, chatVars, rpcVars, call, returned,
                 vision, chatPage>>

\* ------------------------------------------------------------------------
\* The chat page
\* ------------------------------------------------------------------------
MaxSent == 2

\* what the user types: blank text, or a question
TypedTexts == {<< <<"s", 2>> >>, << <<"t", 5>> >>}
\* what supabase.functions.invoke('chat') settles with: data carrying
\* raw_response, data carrying only steps, data carrying neither, no data,
\* an error, or a rejection
InvokeReplies == {"raw_response", "steps", "empty_data", "no_data", "error", "throws"}

\* of is the call of handleSendMessage that appended the message (the code's
\* id is Date.now() and carries no such link)
ChatMessageType(type, content, of) == [type |-> type, content |-> content, of |-> of]

\* content of botMessage: data.raw_response || data.steps?.join || default
BotContent(reply) ==
  CASE reply = "raw_response" -> "raw_response"
    [] reply = "steps" -> "steps"
    [] OTHER -> "No se pudo procesar la respuesta."

\* content of errorMessage, by hasDocument as the handler's closure holds it
ErrorContent(hasDocument) ==
  IF hasDocument THEN "Lo siento, ha ocurrido un error" ELSE "Para poder ayudarte"

\* the effect on mount: hasDocument becomes true when a processed document
\* of the user is found
checkDocument(found) ==
  /\ ~chatPage.hasDocument
  /\ found
  /\ chatPage' = [chatPage EXCEPT !.hasDocument = TRUE]
  /\ UNCHANGED <<storeVars, uploadVars, runVars, chatVars, rpcVars, call, returned,
                 vision, polling>>

\* ChatInput.handleSend and handleSendMessage up to the await of the chat
\* call: the input sends only when it is not disabled (disabled = isTyping)
\* and the text is not blank; the user message is appended, isTyping is set
\* and the 60 s timeout is armed
handleSendMessage(text) ==
  /\ chatPage.sent < MaxSent
  /\ ~chatPage.isTyping
  /\ IF Trim(text) = << >> THEN chatPage' = chatPage
     ELSE chatPage' = [chatPage EXCEPT
            !.messages = Append(@, ChatMessageType("user", "text", chatPage.sent + 1)),
            !.isTyping = TRUE,
            !.sent = @ + 1,
            !.awaiting = @ \cup {chatPage.sent + 1},
            !.timers = @ \cup {chatPage.sent + 1},
            !.withDocument = IF chatPage.hasDocument THEN @ \cup {chatPage.sent + 1}
                             ELSE @]
  /\ UNCHANGED <<storeVars, uploadVars, runVars, chatVars, rpcVars, call, returned,
                 vision, polling>>

\* the callback of setTimeout(..., 60000) of call id: it runs when the chat
\* call has not settled (and so has not cleared it) within 60 s
TimeoutFires(id) ==
  /\ id \in chatPage.timers
  /\ chatPage' = [chatPage EXCEPT
       !.isTyping = FALSE,
       !.messages = Append(@, ChatMessageType("bot", "La solicitud esta tardando", id)),
       !.timers = @ \ {id}]
  /\ UNCHANGED <<storeVars, uploadVars, runVars, chatVars, rpcVars, call, returned,
                 vision, polling>>

\* handleSendMessage of call id from the settling of the chat call to its
\* end: clearTimeout, the bot message or (catch) the error message, and
\* (finally) isTyping false
ChatSettles(id, reply) ==
  /\ id \in chatPage.awaiting
  /\ LET content == IF reply \in {"error", "no_data", "throws"}
                    THEN ErrorContent(id \in chatPage.withDocument)
                    ELSE BotContent(reply)
     IN chatPage' = [chatPage EXCEPT
          !.timers = @ \ {id},
          !.messages = Append(@, ChatMessageType("bot", content, id)),
          !.isTyping = FALSE,
          !.awaiting = @ \ {id}]
  /\ UNCHANGED <<storeVars, uploadVars, runVars, chatVars, rpcVars, call, returned,
                 vision, polling>>

\* ------------------------------------------------------------------------
\* The systems
\* ------------------------------------------------------------------------
\* uploads and two invocations of process-pdf
Next ==
  \/ \E u \in Users : UploadFile(u)
  \/ \E u \in Users : RegisterDocument(u)
  \/ \E r \in Runs, request \in Requests : StartRun(r, request)
  \/ \E r \in Runs : AnalyzePages(r)
  \/ \E r \in Runs : Download(r)
  \/ \E r \in Runs : ClearChunks(r)
  \/ \E r \in Runs : ClearImages(r)
  \/ \E r \in Runs : InsertChunks(r)
  \/ \E r \in Runs : InsertImages(r)
  \/ \E r \in Runs : MarkProcessed(r)

Spec == Init /\ [][Next]_vars

\* uploads, one invocation of process-pdf and the chat handler
NextChat ==
  \/ \E u \in Users : UploadFile(u)
  \/ \E u \in Users : RegisterDocument(u)
  \/ \E request \in Requests : StartRun("r1", request)
  \/ AnalyzePages("r1")
  \/ Download("r1")
  \/ ClearChunks("r1")
  \/ ClearImages("r1")
  \/ InsertChunks("r1")
  \/ InsertImages("r1")
  \/ MarkProcessed("r1")
  \/ \E u \in Users, q \in QueryVecs : ChatStart(u, q)
  \/ ChatMatchDocuments
  \/ ChatMatchImages
  \/ ChatComplete

SpecChat == Init /\ [][NextChat]_vars

\* the two retrieval functions over every table
NextRetriever ==
  \/ \E i \in 1..MaxRows : StoreInsertChunk(i)
  \/ \E i \in 1..MaxRows : StoreInsertImage(i)
  \/ \E u \in Users : StoreDeleteChunks(u)
  \/ \E u \in Users : StoreDeleteImages(u)
  \/ \E q \in RetrieverQueries, th \in RetrieverThresholds, k \in 1..MaxCount, u \in Users :
       RpcMatchDocuments(q, th, k, u)
  \/ \E q \in RetrieverQueries, th \in RetrieverThresholds, k \in 1..MaxCount, u \in Users :
       RpcMatchImages(q, th, k, u)
  \/ RpcReturn

SpecRetriever == Init /\ [][NextRetriever]_vars

\* the functions, one application after another
NextFunctions ==
  \/ \E rawResponse \in Responses : ApplyParseSteps(rawResponse)
  \/ \E rawResponse \in ReferringResponses, availableImages \in AvailableImageLists :
       ApplyMatchImages(rawResponse, availableImages)
  \/ \E analyses \in AnalysesLists : ApplyCreateSemanticChunks(analyses)
  \/ \E n \in 0..MaxTexts :
       \E replies \in [1..RequestsFor(n) -> BOOLEAN] :
         ApplyBatchGenerateEmbeddings(TextsOf(n), replies)
  \/ \E images \in EmbeddedImageLists :
       \E outcome \in [1..Len(images) -> ImageOutcomes] :
         ApplyProcessEmbeddedImages(images, outcome)
  \/ \E fullText \in FullTexts : ApplyParsePageAnalyses(fullText)
  \/ TakeResult

SpecFunctions == Init /\ [][NextFunctions]_vars

\* the vision path of one request
NextVision ==
  \/ \E n \in 1..MaxPages : VisionStart(n)
  \/ \E idx \in 0..(visionBatchSize - 1), outcome \in VisionOutcomes :
       VisionPageDone(idx, outcome)
  \/ VisionBatchDone

SpecVision == Init /\ [][NextVision]_vars

\* the polling loop of one request
NextPolling ==
  \/ \E status \in RunStatuses : PollStart(status)
  \/ \E latency \in FetchLatencies, reply \in RunStatuses \cup {"throws"} :
       PollIteration(latency, reply)
  \/ PollLeave
  \/ \E fetched \in BOOLEAN, deleted \in SUBSET {"file", "assistant"} :
       PollCleanup(fetched, deleted)

SpecPolling == Init /\ [][NextPolling]_vars

\* every status request is answered or fails, and the handler is scheduled
SpecPollingFair == SpecPolling /\ WF_vars(NextPolling)

\* the chat page of one user
NextChatPage ==
  \/ \E found \in BOOLEAN : checkDocument(found)
  \/ \E text \in TypedTexts : handleSendMessage(text)
  \/ \E id \in 1..MaxSent : TimeoutFires(id)
  \/ \E id \in 1..MaxSent, reply \in InvokeReplies : ChatSettles(id, reply)

SpecChatPage == Init /\ [][NextChatPage]_vars

\* ------------------------------------------------------------------------
\* Properties
\* ------------------------------------------------------------------------
\* run r returns its response in this step
Returns(r) == pc[r] # "done" /\ pc'[r] = "done"

RowsOfUser(table, u) == {row \in table : row.user_id = u}
\* the rows an insert of run r put into the table
RowsOfRun(table, r) == {row \in table : row.id[1] = r}

\* C1: when a run for user U that overlapped no other run of U returns
\* success, every chunk row and every image row U owns was written by that
\* run: nothing of an earlier run is left.
C1_OneGenerationPerUser ==
  [][\A r \in Runs :
       (Returns(r) /\ response'[r].success /\ r \notin concurrent) =>
         /\ RowsOfUser(document_chunks', req[r].user_id) = RowsOfRun(document_chunks', r)
         /\ RowsOfUser(document_images', req[r].user_id) = RowsOfRun(document_images', r)]_vars

\* C2: the chat handler obtains rows of the user's chunks or images only
\* while the user's document has processed = true.
C2_RetrievalGatedByProcessed ==
  [][( \/ chatPc = "match_documents" /\ chatPc' = "match_images" /\ relevantChunks' # << >>
       \/ chatPc = "match_images" /\ chatPc' = "complete" /\ relevantImages' # << >> )
     => documents[DocOf(chatReq.user_id)].processed]_vars

\* C3: when a run for document D returns an error response (status 500),
\* D has processed = false.
C3_FailureLeavesUnprocessed ==
  [][\A r \in Runs :
       (Returns(r) /\ response'[r].status = 500 /\ req'[r].document_id \in DocIds) =>
         ~documents'[req'[r].document_id].processed]_vars

\* C4: a run that ends because an embedding request failed has left no
\* chunk row and no image row of its own in the store.
C4_NoRowsBeforeAllEmbeddings ==
  [][\A r \in Runs :
       (Returns(r) /\ response'[r].error = "Embeddings failed") =>
         /\ RowsOfRun(document_chunks', r) = {}
         /\ RowsOfRun(document_images', r) = {}]_vars

\* C5: when a run that overlapped no other run of its user returns success,
\* chunks_count chunk rows and images_count image rows of the run are stored
\* and its document has processed = true.
C5_SuccessMeansPersisted ==
  [][\A r \in Runs :
       (Returns(r) /\ response'[r].success /\ r \notin concurrent) =>
         /\ Cardinality(RowsOfRun(document_chunks', r)) = response'[r].chunks_count
         /\ Cardinality(RowsOfRun(document_images', r)) = response'[r].images_count
         /\ documents'[req[r].document_id].processed]_vars

\* C6: a run whose page analyses yield zero chunks never reaches the inserts
\* or the update of the document, returns success = false and changes no
\* document; a success response has chunks_count > 0.
C6_ZeroChunksIsFailure ==
  [][\A r \in Runs :
       /\ pc'[r] \in {"insert_chunks", "insert_images", "mark"} =>
            Len(createSemanticChunks(pageAnalyses'[r])) > 0
       /\ (Returns(r) /\ Len(chunksOf(r)) = 0) =>
            /\ ~response'[r].success
            /\ response'[r].status # 200
            /\ documents' = documents
       /\ (Returns(r) /\ response'[r].success) => response'[r].chunks_count > 0]_vars

\* a run of a registered document ended on the zero-chunks error
C6_Witness ==
  \E r \in Runs :
    /\ pc[r] = "done"
    /\ response[r].error = "No se pudo extraer contenido del documento"
    /\ ~response[r].success
    /\ documents[req[r].document_id].exists
    /\ ~documents[req[r].document_id].processed

\* C7: no chunk and no image the chat handler retrieves for a user comes from
\* a file the user uploaded before the file of the user's current document.
C7_OnlyCurrentDocumentRetrieved ==
  [][LET doc == DocOf(chatReq.user_id)
         current == documents[doc].original_filename IN
     /\ (chatPc = "match_documents" /\ chatPc' = "match_images") =>
          \A i \in 1..Len(relevantChunks') : \A row \in document_chunks :
            (row.id = relevantChunks'[i].id /\ row.document_id = doc) => row.gen >= current
     /\ (chatPc = "match_images" /\ chatPc' = "complete") =>
          \A i \in 1..Len(relevantImages') : \A row \in document_images :
            (row.id = relevantImages'[i].id /\ row.document_id = doc) => row.gen >= current]_vars

\* C8: every row a run inserts is attributed to the document of the row's
\* user, and a run changes only the document of its request's user_id.
C8_RunStaysWithinItsUser ==
  [][/\ \A row \in (document_chunks' \ document_chunks) \cup (document_images' \ document_images) :
          row.document_id = DocOf(row.user_id)
     /\ \A r \in Runs, d \in DocIds :
          (pc[r] = "mark" /\ pc'[r] = "done" /\ documents'[d] # documents[d]) =>
            d = DocOf(req[r].user_id)]_vars

\* the table the call being served reads
RpcTable == IF rpc.fn = "match_images" THEN document_images ELSE document_chunks
RowSimilarity(row, q) == Similarity(row.embedding[1], q)
\* the rows of the caller whose similarity to the query exceeds the threshold
Qualifying ==
  {row \in RpcTable : /\ row.user_id = rpc.p_user_id
                      /\ row.embedding # Null
                      /\ RowSimilarity(row, rpc.query_embedding) > rpc.match_threshold}
\* the possible results of the call being served, were its threshold th
RpcCallWith(th) ==
  IF rpc.fn = "match_images"
  THEN match_images(document_images, rpc.query_embedding, th, rpc.match_count, rpc.p_user_id)
  ELSE match_documents(document_chunks, rpc.query_embedding, th, rpc.match_count,
                       rpc.p_user_id)

\* C9: every row match_documents / match_images returns for p_user_id = U is
\* a row of U, and a change of the tables that leaves U's rows as they are
\* leaves the results for U as they are, for every query, threshold and limit.
C9_RetrievalIsolatedPerUser ==
  [][/\ rpc' # NoCall =>
          \A i \in 1..Len(rpcResult') : \E row \in RpcTable' :
            row.id = rpcResult'[i].id /\ row.user_id = rpc'.p_user_id
     /\ \A u \in Users :
          /\ ( /\ document_chunks' # document_chunks
               /\ RowsOfUser(document_chunks', u) = RowsOfUser(document_chunks, u) ) =>
               \A q \in RetrieverQueries, th \in RetrieverThresholds, k \in 1..MaxCount :
                 match_documents(document_chunks', q, th, k, u)
                   = match_documents(document_chunks, q, th, k, u)
          /\ ( /\ document_images' # document_images
               /\ RowsOfUser(document_images', u) = RowsOfUser(document_images, u) ) =>
               \A q \in RetrieverQueries, th \in RetrieverThresholds, k \in 1..MaxCount :
                 match_images(document_images', q, th, k, u)
                   = match_images(document_images, q, th, k, u)]_vars

\* a call returned rows while another user's row passed the similarity test
C9_Witness ==
  /\ rpc # NoCall
  /\ rpcResult # << >>
  /\ \E row \in RpcTable :
       /\ row.user_id # rpc.p_user_id
       /\ row.embedding # Null
       /\ RowSimilarity(row, rpc.query_embedding) > rpc.match_threshold

\* C10: the rows returned are min(k, number of qualifying rows) distinct
\* qualifying rows, each with similarity > threshold, listed by descending
\* similarity, none of lower similarity than a qualifying row left out; and
\* no higher threshold returns more rows.
C10_TopKAboveThreshold ==
  rpc # NoCall =>
    LET n == Len(rpcResult) IN
    /\ n = Min(rpc.match_count, Cardinality(Qualifying))
    /\ \A i \in 1..n : \E row \in Qualifying :
         /\ row.id = rpcResult[i].id
         /\ rpcResult[i].similarity = RowSimilarity(row, rpc.query_embedding)
    /\ \A i \in 1..n : rpcResult[i].similarity > rpc.match_threshold
    /\ \A i, j \in 1..n :
         i < j => /\ rpcResult[i].id # rpcResult[j].id
                  /\ rpcResult[i].similarity >= rpcResult[j].similarity
    /\ \A row \in Qualifying :
         (\A i \in 1..n : rpcResult[i].id # row.id) =>
           \A i \in 1..n : rpcResult[i].similarity >= RowSimilarity(row, rpc.query_embedding)
    /\ \A th \in RetrieverThresholds :
         th > rpc.match_threshold => \A res \in RpcCallWith(th) : Len(res) <= n

\* the limit cut the result short while a row of the caller sat exactly on
\* the threshold
C10_Witness ==
  /\ rpc # NoCall
  /\ Len(rpcResult) = rpc.match_count
  /\ Cardinality(Qualifying) > rpc.match_count
  /\ \E row \in RpcTable :
       /\ row.user_id = rpc.p_user_id
       /\ row.embedding # Null
       /\ RowSimilarity(row, rpc.query_embedding) = rpc.match_threshold

\* "1. First.\n2. Second."
ExampleResponse == Line("numbered", 1) \o << <<"nl">> >> \o Line("numbered", 2)
\* the response holds at least two markers of one kind, "n." / "n)" or "Paso n"
HasNumbering(rawResponse) ==
  CountNumbered(rawResponse, 1) >= 2 \/ CountPaso(rawResponse) >= 2
\* the blank-line-separated paragraphs of the response that are not blank
ParagraphsOf(rawResponse) ==
  SelectSeq(SplitBlankLines(rawResponse, 1, << >>), LAMBDA p : TrimText(p) # << >>)

\* C12: parseSteps gives at least two steps, each after the first starting
\* at a marker, when the response has two numbered markers; else one step
\* per paragraph when there are two or more paragraphs; else exactly one
\* step, the whole response, the empty response included; and the example
\* "1. First.\n2. Second." gives its two lines.
C12_ParseStepsSplits ==
  call.fn = "parseSteps" =>
    LET text == call.args[1] IN
    /\ text = ExampleResponse =>
         returned = <<Line("numbered", 1), Line("numbered", 2)>>
    /\ HasNumbering(text) =>
         /\ Len(returned) >= 2
         /\ \A i \in 2..Len(returned) : returned[i][1][1] \in {"num", "paso"}
    /\ (~HasNumbering(text) /\ Len(ParagraphsOf(text)) >= 2) =>
         returned = [i \in 1..Len(ParagraphsOf(text)) |->
                       TrimText(ParagraphsOf(text)[i])]
    /\ (~HasNumbering(text) /\ Len(ParagraphsOf(text)) < 2) =>
         returned = << TrimText(text) >>

\* the description and the caption of the image have a word longer than
\* three characters in common
SharesWord(descWords, img) ==
  \E i \in 1..Len(descWords), j \in 1..Len(CaptionWords(img)) :
    /\ Len(Chars(descWords[i])) > 3
    /\ descWords[i] = CaptionWords(img)[j]

\* C17: when the description of the first [IMAGEN: ...] reference of the
\* response shares a word longer than three characters with the caption of
\* exactly one available image and with the caption of no other, the
\* reference resolves to that image and to no other.
C17_SharedWordResolves ==
  call.fn = "matchImagesFromResponse" =>
    LET refs == ImageRefs(call.args[1])
        availableImages == call.args[2]
        sharing == {i \in 1..Len(availableImages) : SharesWord(refs[1], availableImages[i])}
    IN  (refs # << >> /\ Cardinality(sharing) = 1) =>
          /\ returned # << >>
          /\ \A i \in sharing : returned[1] = MatchedImage(availableImages[i])

\* C11: a chat query whose embedding call or completion call failed, or
\* whose completion reply was malformed, is answered with status 500, one
\* apologetic step, no images and an (empty) raw_response.
C11_FailureGivesApology ==
  chatResponse.upstream \in {"embedding_failed", "http_error", "bad_json",
                             "no_choices", "no_content"} =>
    /\ chatResponse.status = 500
    /\ chatResponse.steps = <<Apology>>
    /\ chatResponse.images = << >>
    /\ chatResponse.raw_response = << >>

\* C13: no chunk that createSemanticChunks returns is longer than the
\* target size plus the overlap plus the paragraph separator, whatever the
\* lengths of the paragraphs and of the tables of the page.
C13_ChunkLengthBounded ==
  call.fn = "createSemanticChunks" =>
    \A i \in 1..Len(returned) :
      StrLen(returned[i].content) <= targetChunkSize + overlap + StrLen(ParaSep)

\* the non-whitespace characters of the chunks from the i-th on, overlaps
\* counted each time they occur
RECURSIVE InkOfChunks(_, _)
InkOfChunks(chunks, i) ==
  IF i > Len(chunks) THEN 0
  ELSE InkLen(chunks[i].content) + InkOfChunks(chunks, i + 1)

\* C14: the chunks of a page without tables hold all the non-whitespace
\* characters of the page, so together at least as many as the page has:
\* no paragraph and no fragment is dropped.
C14_ChunksCoverPage ==
  (call.fn = "createSemanticChunks" /\ call.args[1][1].tables = << >>) =>
    InkOfChunks(returned, 1) >= InkLen(call.args[1][1].text_content)

\* the texts of the requests, one after the other
RECURSIVE Flatten(_)
Flatten(requests) ==
  IF requests = << >> THEN << >> ELSE Head(requests) \o Flatten(Tail(requests))

\* C15: batchGenerateEmbeddings sends the texts in order, in requests of at
\* most 20, one request after the other and none after a failed one; when
\* every request is answered it returns one vector per text, the i-th that
\* of the i-th text; when a request fails it throws and returns nothing.
C15_OneVectorPerTextInOrder ==
  call.fn = "batchGenerateEmbeddings" =>
    LET texts == call.args[1]
        replies == call.args[2]
        sent == Flatten(returned.requests)
        failed == {n \in 1..RequestsFor(Len(texts)) : ~replies[n]}
    IN  /\ \A n \in 1..Len(returned.requests) :
             Len(returned.requests[n]) \in 1..embeddingBatchSize
        /\ Len(sent) <= Len(texts)
        /\ \A i \in 1..Len(sent) : sent[i] = Take(texts[i], maxEmbeddingInput)
        /\ returned.thrown = (failed # {})
        /\ returned.thrown =>
             /\ returned.results = << >>
             /\ \A n \in failed : Len(returned.requests) <= n
        /\ ~returned.thrown =>
             /\ Len(sent) = Len(texts)
             /\ Len(returned.requests) = RequestsFor(Len(texts))
             /\ Len(returned.results) = Len(texts)
             /\ \A i \in 1..Len(texts) :
                  returned.results[i] = Embedding(Take(texts[i], maxEmbeddingInput))

\* more than 20 texts, embedded in more than one request
C15_Witness ==
  /\ call.fn = "batchGenerateEmbeddings"
  /\ Len(call.args[1]) > embeddingBatchSize
  /\ ~returned.thrown
  /\ Len(returned.requests) > 1
  /\ Len(returned.results) = Len(call.args[1])

\* the runs that wrote the rows user u owns
RunsWithRowsOf(u) ==
  {row.id[1] : row \in RowsOfUser(document_chunks, u) \cup RowsOfUser(document_images, u)}

\* C16: as long as no two runs of one user have overlapped, the rows a user
\* owns were all written by one run: rows of two runs side by side are
\* reachable only through overlapping runs.
C16_SerializedRunsKeepOneGeneration ==
  concurrent = {} => \A u \in Users : Cardinality(RunsWithRowsOf(u)) <= 1

\* two overlapping runs of one user have both left rows
C16_OverlapMixesRuns ==
  /\ concurrent # {}
  /\ \A r \in Runs : ~Active(r)
  /\ \E u \in Users : Cardinality(RunsWithRowsOf(u)) = 2

\* the analysis of page p, once its call has settled
SettledAnalysis(p) ==
  IF p <= Len(vision.pageAnalyses) THEN vision.pageAnalyses[p]
  ELSE vision.batchResults[p - vision.i][1]

\* C18: a page whose vision call answered with a status that is not OK,
\* threw, or answered with text that is not JSON has the empty analysis:
\* empty text_content, no diagrams, no tables.
C18_FailedPageIsEmpty ==
  \A p \in 1..vision.page_images :
    vision.outcomes[p] \in {"http_error", "throws", "bad_json"} =>
      SettledAnalysis(p) = EmptyAnalysis(p)

\* the pages whose call is in flight
InFlight == {vision.i + idx + 1 : idx \in vision.pending}
\* the group of page p
GroupOf(p) == (p - 1) \div visionBatchSize

\* C19: at most 3 calls are in flight; a page's call is made only when the
\* calls of all pages of earlier groups have settled; and at the end the
\* list holds the analysis of page k at position k, with page_number k.
C19_GroupsOfThreeInPageOrder ==
  /\ Cardinality(InFlight) <= 3
  /\ \A p \in vision.started : \A q \in 1..vision.page_images :
       GroupOf(q) < GroupOf(p) => (q \in vision.started /\ q \notin InFlight)
  /\ vision.state = "done" =>
       /\ Len(vision.pageAnalyses) = vision.page_images
       /\ \A k \in 1..vision.page_images :
            vision.pageAnalyses[k] =
              analyzePageWithVision(PageImage(k), k, vision.outcomes[k])

\* two groups, and the call of page 3 settled before those of pages 2 and 1
C19_Witness ==
  /\ vision.state = "done"
  /\ vision.page_images > visionBatchSize
  /\ SubSeq(vision.settled, 1, 3) = <<3, 2, 1>>
  /\ \A k \in 1..vision.page_images : vision.outcomes[k] = "ok"
  /\ \A k \in 1..vision.page_images : vision.pageAnalyses[k].page_number = k

\* the most status requests the loop makes
MaxPolls == maxWaitTime \div pollInterval + 1

\* what holds of the loop at every moment
PollingBounded ==
  /\ polling.polls <= MaxPolls
  /\ polling.state = "extracting" => (polling.runStatus = "completed" /\ polling.error = "")
  /\ polling.state = "failed" =>
       /\ polling.response.status = 500 /\ ~polling.response.success
       /\ polling.runStatus \in {"failed", "cancelled"} => polling.error = "Extraction failed"
       /\ polling.error = "Extraction failed" => polling.runStatus \in {"failed", "cancelled"}
       /\ polling.error = "Timeout al procesar el documento" =>
            (polling.elapsed > maxWaitTime /\ Waiting(polling.runStatus))

\* C20: the polling loop is always left, whatever statuses are reported:
\* with status completed the extraction goes on; with failed or cancelled
\* the run fails with "Extraction failed"; after more than 180 s without a
\* terminal status it fails with the timeout error; the loop makes at most
\* 91 status requests; every error ends the run with a 500 response.
C20_PollingTerminates ==
  /\ []PollingBounded
  /\ (polling.state = "loop") ~> (polling.state \in {"extracting", "failed"})

\* the loop gave up after the last possible status request
C20_Witness ==
  /\ polling.state = "failed"
  /\ polling.error = "Timeout al procesar el documento"
  /\ polling.polls = MaxPolls
  /\ polling.runStatus = "in_progress"

\* the analysis of the page a chunk belongs to
AnalysisOf(analyses, chunk) ==
  CHOOSE a \in {analyses[k] : k \in 1..Len(analyses)} : a.page_number = chunk.page_number

\* C21: every chunk of a page with at least one diagram has has_diagram =
\* true and the page's diagram descriptions joined with "; " as its
\* diagram_description; every chunk of a page without diagrams has
\* has_diagram = false and no description.
C21_ChunksCarryPageDiagrams ==
  call.fn = "createSemanticChunks" =>
    \A i \in 1..Len(returned) :
      LET diagrams == AnalysisOf(call.args[1], returned[i]).diagrams IN
      IF Len(diagrams) > 0
      THEN /\ returned[i].has_diagram
           /\ returned[i].diagram_description = Some(JoinDescriptions(diagrams))
      ELSE /\ ~returned[i].has_diagram
           /\ returned[i].diagram_description = Null

\* C22: every table with content, of every page analysis, also of one
\* whose text_content is empty, has exactly one chunk: the marker with its
\* title, a line break, its content.
C22_OneChunkPerTable ==
  call.fn = "createSemanticChunks" =>
    \A k \in 1..Len(call.args[1]) :
      LET analysis == call.args[1][k] IN
      \A t \in 1..Len(analysis.tables) :
        analysis.tables[t].content # << >> =>
          Cardinality({i \in 1..Len(returned) :
                         /\ returned[i].page_number = analysis.page_number
                         /\ returned[i].content = TableContent(analysis.tables[t])}) = 1

\* C23: along the list createSemanticChunks returns, the chunk_index of
\* each chunk is greater than that of the chunk before it.
C23_ChunkIndexIncreases ==
  call.fn = "createSemanticChunks" =>
    \A i \in 2..Len(returned) : returned[i].chunk_index > returned[i - 1].chunk_index

\* C24: processEmbeddedImages returns, in order, exactly the images at
\* least 50 pixels wide and high whose caption generation and upload both
\* succeeded; an image whose caption call or upload failed is not returned,
\* and the images after it are still processed.
C24_FailedImagesSkipped ==
  call.fn = "processEmbeddedImages" =>
    LET images == call.args[1]
        outcome == call.args[2]
        kept == {i \in 1..Len(images) :
                   /\ outcome[i] = "ok"
                   /\ images[i].width >= minImageSide
                   /\ images[i].height >= minImageSide}
    IN  /\ Len(returned) = Cardinality(kept)
        /\ \A k \in 1..Len(returned) :
             /\ returned[k].width >= minImageSide /\ returned[k].height >= minImageSide
             /\ \E i \in kept : returned[k].image_url = <<"u1", "d1", images[i].page_number, i - 1>>

\* the images resolved from the [IMAGEN: ...] references of the response
ResolvedFromRefs(rawResponse, availableImages) ==
  MatchRefsFrom(ImageRefs(rawResponse), 1, availableImages, {}, << >>)

C26_FallbackOnlyWithoutRefs ==
  (call.fn = "matchImagesFromResponse" /\ ImageRefs(call.args[1]) # << >>) =>
    returned = ResolvedFromRefs(call.args[1], call.args[2])

\* the positions of the markers of an extracted text
MarkersOf(fullText) == {k \in 1..Len(fullText) : fullText[k].marker}

\* the text between the marker at position k and the next marker
TextAfterMarker(fullText, k) ==
  IF k < Len(fullText) /\ ~fullText[k + 1].marker THEN fullText[k + 1].text ELSE << >>

RECURSIVE InkOfPages(_, _)
InkOfPages(analyses, i) ==
  IF i > Len(analyses) THEN 0
  ELSE InkLen(analyses[i].text_content) + InkOfPages(analyses, i + 1)

\* C27: the analyses parsed from the extracted text are, in order, one per
\* marker "[Página N]", with page_number N, the trimmed text up to the next
\* marker, no diagrams and no tables; a text without markers gives page 1
\* alone; and the analyses hold every non-blank character of the text
\* outside the markers.
C27_OnePagePerMarker ==
  call.fn = "parsePageAnalyses" =>
    LET fullText == call.args[1]
        markers == MarkersOf(fullText)
    IN  /\ markers # {} =>
             /\ Len(returned) = Cardinality(markers)
             /\ \A k \in markers :
                  returned[Cardinality({m \in markers : m <= k})] =
                    [page_number |-> fullText[k].number,
                     text_content |-> Trim(TextAfterMarker(fullText, k)),
                     diagrams |-> << >>, tables |-> << >>]
        /\ (markers = {} /\ Trim(TextOutsideMarkers(fullText)) # << >>) =>
             returned = << [page_number |-> 1,
                            text_content |-> Trim(TextOutsideMarkers(fullText)),
                            diagrams |-> << >>, tables |-> << >>] >>
        /\ InkOfPages(returned, 1) = InkLen(TextOutsideMarkers(fullText))

\* C28: a run that returned success = false left the rows of its user as
\* they were: in particular, when an earlier run of the same user had
\* returned success, the chunk rows that run stored, as many as its
\* response counts, are still in the store after the failed run.
C28_FailedRunLeavesRows ==
  \A r, q \in Runs :
    ( /\ r # q
      /\ r \notin concurrent /\ q \notin concurrent
      /\ pc[r] = "done" /\ response[r].success
      /\ pc[q] = "done" /\ response[q].status = 500
      /\ req[q].user_id = req[r].user_id ) =>
      Cardinality(RowsOfRun(document_chunks, r)) = response[r].chunks_count

\* C29: when extractWithAssistantsAPI has returned or thrown, the assistant
\* and the file it created have been deleted.
C29_RemoteResourcesDeleted ==
  polling.state \in {"extracted", "failed"} => polling.remote = {}

\* the bot messages that call id of handleSendMessage has appended
BotMessagesOf(id) ==
  {i \in 1..Len(chatPage.messages) :
     chatPage.messages[i].type = "bot" /\ chatPage.messages[i].of = id}

\* C30: every message sent gets exactly one bot message (none while its chat
\* call is pending and its timeout has not fired, never more than one), and
\* isTyping is false when the last message of the conversation is a bot
\* message.
C30_OneBotMessagePerSend ==
  /\ \A id \in 1..chatPage.sent :
       Cardinality(BotMessagesOf(id)) =
         IF id \in chatPage.awaiting /\ id \in chatPage.timers THEN 0 ELSE 1
  /\ (chatPage.messages # << >> /\ chatPage.messages[Len(chatPage.messages)].type = "bot")
       => ~chatPage.isTyping

====
